---- MODULE Spec2Model ----
(***************************************************************************)
(* Model of the analysis engine of splash (src/splash/analyzers.py) on a   *)
(* Dataset as the loader (src/splash/loader.py) builds it.                 *)
(*                                                                         *)
(* A cell value is a tagged variant: absent (None), a raw string, a parsed *)
(* timestamp or a parsed integer.  Timestamps are whole seconds on one     *)
(* time line (naive datetimes); a duration is a difference of two of them. *)
(* A row is a function from the column names it holds to cell values, as   *)
(* the dict of the loader; the identity of a row is its position in the    *)
(* row list it is analysed in.                                             *)
(* Rates rounded to 2 decimals are integers in hundredths, rates rounded   *)
(* to 1 decimal are integers in tenths.                                    *)
(***************************************************************************)
EXTENDS Integers, Sequences, FiniteSets, TLC

\* ------------------------------------------------------------------ values

NoneVal == [tag |-> "none", n |-> 0, s |-> ""]
Unset == [tag |-> "unset", n |-> 0, s |-> ""]
Str(x) == [tag |-> "str", n |-> 0, s |-> x]
Int_(x) == [tag |-> "int", n |-> x, s |-> ""]
Ts(x) == [tag |-> "ts", n |-> x, s |-> ""]
Num(x) == [tag |-> "num", n |-> x, s |-> ""]

IsTs(v) == v.tag = "ts"
IsInt(v) == v.tag = "int"
IsNone(v) == v.tag = "none"
EmptyStr == Str("")

\* Python truth value of a cell: None, "" and 0 are false.
Truthy(v) ==
  CASE v.tag = "none" -> FALSE
    [] v.tag = "str" -> v.s # ""
    [] v.tag = "int" -> v.n # 0
    [] OTHER -> TRUE

\* a or b
Or(a, b) == IF Truthy(a) THEN a ELSE b

\* row.get(col) and row.get(col, default)
Get(row, col) == IF col \in DOMAIN row THEN row[col] ELSE NoneVal
GetD(row, col, default) == IF col \in DOMAIN row THEN row[col] ELSE default

\* ------------------------------------------------------------------ columns

Column ==
  {"report_name", "report_type", "parameters", "schema_name",
   "start_datetime", "end_datetime", "birt_report_starttime", "birt_report_endtime",
   "report_execution_status_id", "error_code", "error_message", "error_stack",
   "actual_engine", "expected_engine", "requested_engine", "route_to_node",
   "output_file_size", "report_object_count"}

_FAILURE_STATUSES == {3, 5}

\* Dataset.has(col)
Has(avail, col) == col \in avail

\* ------------------------------------------------------------------ generic helpers

Range(f) == {f[i] : i \in DOMAIN f}

Min2(a, b) == IF a <= b THEN a ELSE b

\* s[:n]
Take(s, n) == SubSeq(s, 1, Min2(n, Len(s)))

\* a loop "for i in range(lo, hi + 1): acc = Step(acc, i)", run as the loop over
\* the first half of the range, to its end, and then the loop over the second
\* half from the value the first half leaves
RECURSIVE Loop(_, _, _, _)
Loop(Step(_, _), acc, lo, hi) ==
  IF lo > hi THEN acc
  ELSE IF lo = hi THEN Step(acc, lo)
  ELSE LET mid == (lo + hi) \div 2
       IN CHOOSE out \in {Loop(Step, half, mid + 1, hi) :
                            half \in {Loop(Step, acc, lo, mid)}} : TRUE

\* the indices 1..n in order
Indices(n) == [i \in 1..n |-> i]

SumSeq(s) == LET Add(acc, i) == acc + s[i] IN Loop(Add, 0, 1, Len(s))

\* list.sort(key=...) : stable, ascending.  Key(x) is an integer.  x goes behind
\* the elements of sorted whose key is not above its own, which are a prefix.
InsertAsc(Key(_), x, sorted) ==
  LET p == Cardinality({j \in 1..Len(sorted) : Key(sorted[j]) <= Key(x)})
  IN SubSeq(sorted, 1, p) \o <<x>> \o SubSeq(sorted, p + 1, Len(sorted))

SortAsc(Key(_), s) ==
  LET Insert(acc, i) == InsertAsc(Key, s[i], acc) IN Loop(Insert, <<>>, 1, Len(s))

\* list.sort(key=..., reverse=True) : descending, equal keys keep their order.
SortDesc(Key(_), s) == LET Neg(x) == 0 - Key(x) IN SortAsc(Neg, s)

\* round(num / den, 0) as Python rounds an exactly representable quotient:
\* to the nearest integer, a tie to the even one.  num >= 0, den > 0.
RoundHalfEven(num, den) ==
  LET q == num \div den
      r == num % den
  IN IF 2 * r < den THEN q
     ELSE IF 2 * r > den THEN q + 1
     ELSE IF q % 2 = 0 THEN q ELSE q + 1

\* round(f / t * 100, 2) in hundredths; round(f / t * 100, 1) in tenths
Pct2(f, t) == RoundHalfEven(f * 10000, t)
Pct1(f, t) == RoundHalfEven(f * 1000, t)

\* collections.Counter as the insertion-ordered list of <<key, count>>
CounterKeys(c) == {c[i][1] : i \in 1..Len(c)}

CounterGet(c, k) ==
  IF k \in CounterKeys(c)
  THEN LET i == CHOOSE j \in 1..Len(c) : c[j][1] = k IN c[i][2]
  ELSE 0

\* c[k] += 1
CounterInc(c, k) ==
  IF k \in CounterKeys(c)
  THEN [i \in 1..Len(c) |-> IF c[i][1] = k THEN <<k, c[i][2] + 1>> ELSE c[i]]
  ELSE Append(c, <<k, 1>>)

\* most_common by sorting ascending and reversing, which reverses equal counts
MostCommonReversed(c) ==
  LET Cnt(e) == e[2]
      asc == SortAsc(Cnt, c)
  IN [k \in 1..Len(asc) |-> asc[Len(asc) + 1 - k]]

\* Counter.most_common(): by count descending, equal counts in insertion order
MostCommon(c) == LET Cnt(e) == e[2] IN SortDesc(Cnt, c)

\* ------------------------------------------------------------------ derived fields

_get_start(row) ==
  LET v == Or(Get(row, "start_datetime"), Get(row, "birt_report_starttime"))
  IN IF IsTs(v) THEN v ELSE NoneVal

_get_end(row) ==
  LET v == Or(Get(row, "end_datetime"), Get(row, "birt_report_endtime"))
  IN IF IsTs(v) THEN v ELSE NoneVal

_get_duration_seconds(row) ==
  LET start == Or(Get(row, "start_datetime"), Get(row, "birt_report_starttime"))
      end == Or(Get(row, "end_datetime"), Get(row, "birt_report_endtime"))
  IN IF IsTs(start) /\ IsTs(end) THEN Num(end.n - start.n) ELSE NoneVal

_get_queue_time_seconds(row) ==
  LET start == Get(row, "start_datetime")
      birt_start == Get(row, "birt_report_starttime")
  IN IF IsTs(start) /\ IsTs(birt_start)
     THEN LET delta == birt_start.n - start.n
          IN IF delta >= 0 THEN Num(delta) ELSE NoneVal
     ELSE NoneVal

\* _is_failure that knows FAILED only
_is_failure_failed_only(row) ==
  LET status_id == Get(row, "report_execution_status_id")
  IN IsInt(status_id) /\ status_id.n = 3

_is_failure(row) ==
  LET status_id == Get(row, "report_execution_status_id")
  IN IsInt(status_id) /\ status_id.n \in _FAILURE_STATUSES

\* ------------------------------------------------------------------ analyze_timing

\* float("inf") as the upper end of the last bucket
Inf == [tag |-> "inf", n |-> 0, s |-> ""]

_DURATION_BUCKETS ==
  << [label |-> "<1s", lo |-> Num(0), hi |-> Num(1)],
     [label |-> "1-10s", lo |-> Num(1), hi |-> Num(10)],
     [label |-> "10s-1m", lo |-> Num(10), hi |-> Num(60)],
     [label |-> "1-5m", lo |-> Num(60), hi |-> Num(300)],
     [label |-> "5-30m", lo |-> Num(300), hi |-> Num(1800)],
     [label |-> "30m+", lo |-> Num(1800), hi |-> Inf] >>

_DAY_NAMES ==
  <<"Monday", "Tuesday", "Wednesday", "Thursday", "Friday", "Saturday", "Sunday">>

BucketLabels == {_DURATION_BUCKETS[i].label : i \in 1..Len(_DURATION_BUCKETS)}

\* InBucket with the interval open below and closed above
InBucketUpper(b, dur) == b.lo.n < dur /\ (b.hi = Inf \/ dur <= b.hi.n)

\* lo <= dur < hi
InBucket(b, dur) == b.lo.n <= dur /\ (b.hi = Inf \/ dur < b.hi.n)

\* the for/break loop over _DURATION_BUCKETS: the label of the first bucket that
\* holds dur, or "" when none does
RECURSIVE BucketFrom(_, _)
BucketFrom(dur, i) ==
  IF i > Len(_DURATION_BUCKETS) THEN ""
  ELSE IF InBucket(_DURATION_BUCKETS[i], dur) THEN _DURATION_BUCKETS[i].label
       ELSE BucketFrom(dur, i + 1)

FirstBucket(dur) == BucketFrom(dur, 1)

\* if dur is not None and dur >= 0: ... buckets[label] += 1
BucketStep(buckets, row) ==
  LET dur == _get_duration_seconds(row)
  IN IF ~IsNone(dur) /\ dur.n >= 0
     THEN LET label == FirstBucket(dur.n)
          IN IF label = "" THEN buckets
             ELSE [buckets EXCEPT ![label] = @ + 1]
     ELSE buckets

BucketsFrom(rows, buckets) ==
  LET Step(acc, i) == BucketStep(acc, rows[i]) IN Loop(Step, buckets, 1, Len(rows))

\* datetime.hour and datetime.weekday() of a timestamp in seconds; second 0 is
\* the midnight that starts a Monday
HoursPerDay == 24
Hour(t) == (t \div 3600) % 24
Day(t) == t \div 86400
Weekday(t) == Day(t) % 7

\* HourlyCount over the rows with both a start and an end
HourlyCountIntervals(rows, h) ==
  Cardinality({i \in 1..Len(rows) :
     ~IsNone(_get_start(rows[i])) /\ ~IsNone(_get_end(rows[i]))
       /\ Hour(_get_start(rows[i]).n) = h})

\* hourly[start.hour] += 1 and weekly[_DAY_NAMES[start.weekday()]] += 1 over the
\* rows with a start; day d is _DAY_NAMES[d]
HourlyCount(rows, h) ==
  Cardinality({i \in 1..Len(rows) :
     ~IsNone(_get_start(rows[i])) /\ Hour(_get_start(rows[i]).n) = h})

WeeklyCount(rows, d) ==
  Cardinality({i \in 1..Len(rows) :
     ~IsNone(_get_start(rows[i])) /\ Weekday(_get_start(rows[i]).n) + 1 = d})

\* the (start, end, row) tuples of the rows with both ends, in row order
Intervals(rows) ==
  LET Step(intervals, i) ==
        LET start == _get_start(rows[i])
            end == _get_end(rows[i])
        IN IF IsTs(start) /\ IsTs(end)
           THEN Append(intervals, [start |-> start.n, end |-> end.n, row |-> i])
           ELSE intervals
  IN Loop(Step, <<>>, 1, Len(rows))

\* StartKey that orders nothing: the intervals stay in row order
StartKeyUnsorted(x) == 0

StartKey(x) == x.start

\* AdjacentOverlap with <= for <
AdjacentOverlapOrTouch(start_b, end_a) == start_b <= end_a

\* if start_b < end_a
AdjacentOverlap(start_b, end_a) == start_b < end_a

\* Overlapping that compares the later record's start with its own end
OverlappingOwnEnd(intervals) ==
  LET Step(overlapping, i) ==
        LET end_b == intervals[i + 1].end
            row_a == intervals[i].row
            start_b == intervals[i + 1].start
            row_b == intervals[i + 1].row
        IN IF AdjacentOverlap(start_b, end_b)
           THEN LET with_a ==
                      IF overlapping = <<>> \/ overlapping[Len(overlapping)] # row_a
                      THEN Append(overlapping, row_a)
                      ELSE overlapping
                IN Append(with_a, row_b)
           ELSE overlapping
  IN Loop(Step, <<>>, 1, Len(intervals) - 1)

\* the loop over adjacent pairs of the sorted intervals
Overlapping(intervals) ==
  LET Step(overlapping, i) ==
        LET end_a == intervals[i].end
            row_a == intervals[i].row
            start_b == intervals[i + 1].start
            row_b == intervals[i + 1].row
        IN IF AdjacentOverlap(start_b, end_a)
           THEN LET with_a ==
                      IF overlapping = <<>> \/ overlapping[Len(overlapping)] # row_a
                      THEN Append(overlapping, row_a)
                      ELSE overlapping
                IN Append(with_a, row_b)
           ELSE overlapping
  IN Loop(Step, <<>>, 1, Len(intervals) - 1)

\* deduplicate while preserving order
Dedup(s) ==
  LET Step(deduped, i) ==
        IF s[i] \in Range(deduped) THEN deduped ELSE Append(deduped, s[i])
  IN Loop(Step, <<>>, 1, Len(s))

OverlapCap == 50

analyze_timing(rows, avail) ==
  LET has_start == Has(avail, "start_datetime") \/ Has(avail, "birt_report_starttime")
      has_end == Has(avail, "end_datetime") \/ Has(avail, "birt_report_endtime")
  IN IF ~(has_start /\ has_end) THEN NoneVal
     ELSE LET intervals == SortAsc(StartKey, Intervals(rows))
              overlapping == Overlapping(intervals)
              deduped == Dedup(overlapping)
          IN [duration_buckets |-> BucketsFrom(rows, [l \in BucketLabels |-> 0]),
              hourly_distribution |-> [h \in 0..(HoursPerDay - 1) |-> HourlyCount(rows, h)],
              weekly_distribution |-> [d \in 1..Len(_DAY_NAMES) |-> WeeklyCount(rows, d)],
              overlapping_runs |-> Take(deduped, OverlapCap)]

\* ------------------------------------------------------------------ analyze_inventory

\* the Counter of KeyOf(row) over the rows that satisfy Cond, in row order
CountRows(KeyOf(_), Cond(_), rows) ==
  LET Step(c, i) == IF Cond(rows[i]) THEN CounterInc(c, KeyOf(rows[i])) ELSE c
  IN Loop(Step, <<>>, 1, Len(rows))

TopN == 20

analyze_inventory(rows, avail) ==
  LET NameOf(row) == GetD(row, "report_name", EmptyStr)
      TypeOf(row) == GetD(row, "report_type", EmptyStr)
      EveryRow(row) == TRUE
      HasType(row) == Truthy(TypeOf(row))
      name_counts == CountRows(NameOf, EveryRow, rows)
      type_counts ==
        IF Has(avail, "report_type") THEN CountRows(TypeOf, HasType, rows)
        ELSE NoneVal
      ParamKey(row) == GetD(row, "parameters", EmptyStr)
      Variants(name) ==
        Cardinality({ParamKey(rows[i]) : i \in {j \in 1..Len(rows) : NameOf(rows[j]) = name}})
      VariantCount(e) == e[2]
      param_sets == [i \in 1..Len(name_counts) |->
                       <<name_counts[i][1], Variants(name_counts[i][1])>>]
      ordered == MostCommon(name_counts)
  IN [unique_report_count |-> Len(name_counts),
      \* dict(type_counts.most_common()) if type_counts else None: an empty
      \* Counter is false
      reports_by_type |->
        IF type_counts # NoneVal /\ type_counts # <<>>
        THEN MostCommon(type_counts) ELSE NoneVal,
      top_reports_by_frequency |-> Take(ordered, TopN),
      parameter_variation_counts |->
        IF Has(avail, "parameters")
        THEN Take(SortDesc(VariantCount, param_sets), TopN) ELSE NoneVal,
      report_overview |->
        IF Has(avail, "parameters")
        THEN [i \in 1..Len(ordered) |->
                [report_name |-> ordered[i][1], executions |-> ordered[i][2]]]
        ELSE NoneVal]

\* ------------------------------------------------------------------ analyze_errors

ENGINE_LABELS == (1 :> "ADHOC") @@ (2 :> "MEDIUM") @@ (3 :> "LARGE") @@ (4 :> "SMALL") @@ (6 :> "HCA")

STATUS_LABELS == (1 :> "RUNNING") @@ (2 :> "COMPLETED") @@ (3 :> "FAILED") @@ (5 :> "SUSPENDED")

\* f"UNKNOWN ({id})": one string per id
UnknownLabel(id) == [tag |-> "str", n |-> id, s |-> "UNKNOWN (id)"]

_engine_label(engine_id) ==
  IF IsInt(engine_id)
  THEN IF engine_id.n \in DOMAIN ENGINE_LABELS
       THEN Str(ENGINE_LABELS[engine_id.n]) ELSE UnknownLabel(engine_id.n)
  ELSE IF Truthy(engine_id) THEN engine_id ELSE Str("UNKNOWN")

\* start.strftime("%Y-%m-%d %H:%M:%S"): one string per second, in the order of
\* the timestamps; "" sorts before all of them
Strftime(t) == [tag |-> "str", n |-> t.n, s |-> "%Y-%m-%d %H:%M:%S"]
FormatStart(start) == IF IsTs(start) THEN Strftime(start) ELSE EmptyStr
StrKey(v) == IF v = EmptyStr THEN 0 - 1 ELSE v.n

\* ae is not None and ae != ""
Populated(v) == v # NoneVal /\ v # EmptyStr

\* the indices of the rows with _is_failure, in row order
Failures(rows) ==
  LET Failing(i) == _is_failure(rows[i]) IN SelectSeq(Indices(Len(rows)), Failing)

\* the inner loop of "concurrent load at failure time" for the failed row f
Concurrent(all_intervals, f, f_start, f_end) ==
  LET Step(count, k) ==
        LET iv == all_intervals[k]
        IN IF iv.row = f THEN count
           ELSE IF iv.start < f_end /\ iv.end > f_start THEN count + 1
                ELSE count
  IN Loop(Step, 0, 1, Len(all_intervals))

\* ConcurrentCount without "if i_row is row: continue"
ConcurrentCountSelf(all_intervals, f, f_start, f_end) ==
  Concurrent(all_intervals, 0, f_start, f_end)

ConcurrentCount(all_intervals, f, f_start, f_end) ==
  Concurrent(all_intervals, f, f_start, f_end)

\* the loop over failures[:50]
ConcurrentLoad(rows, all_intervals, failures) ==
  LET Step(concurrent_load, k) ==
        LET row == rows[failures[k]]
            f_start == _get_start(row)
            f_end == _get_end(row)
        IN IF ~IsTs(f_start) \/ ~IsTs(f_end) THEN concurrent_load
           ELSE Append(concurrent_load,
                       [report_name |-> GetD(row, "report_name", EmptyStr),
                        start |-> Strftime(f_start),
                        concurrent_count |->
                          ConcurrentCount(all_intervals, failures[k], f_start.n, f_end.n),
                        error_code |-> GetD(row, "error_code", EmptyStr)])
  IN Loop(Step, <<>>, 1, Len(failures))

ConcurrentCap == 50

\* FailureRateByReport that iterates over report_failures
FailureRateByFailingReport(report_totals, report_failures) ==
  LET RateKey(e) == e.rate
      table ==
        [k \in 1..Len(report_failures) |->
           LET name == report_failures[k][1]
               t == CounterGet(report_totals, name)
               f == report_failures[k][2]
           IN [name |-> name, total |-> t, failures |-> f, rate |-> Pct1(f, t)]]
  IN SortDesc(RateKey, table)

\* the table "failure rate by report": a row for each key of report_totals, then
\* sorted by rate descending
FailureRateByReport(report_totals, report_failures) ==
  LET RateKey(e) == e.rate
      table ==
        [k \in 1..Len(report_totals) |->
           LET name == report_totals[k][1]
               t == report_totals[k][2]
               f == CounterGet(report_failures, name)
           IN [name |-> name, total |-> t, failures |-> f, rate |-> Pct1(f, t)]]
  IN SortDesc(RateKey, table)

analyze_errors(rows, avail) ==
  LET total == Len(rows)
      NameOf(row) == GetD(row, "report_name", Str("unknown"))
      EveryRow(row) == TRUE
      EngineOf(row) == _engine_label(Get(row, "actual_engine"))
      HasEngine(row) == Populated(Get(row, "actual_engine"))
      FailedEngine(row) == _is_failure(row) /\ HasEngine(row)
      CodeOf(row) == GetD(row, "error_code", EmptyStr)
      FailedCode(row) == _is_failure(row) /\ Truthy(CodeOf(row))
      MsgOf(row) == GetD(row, "error_message", EmptyStr)
      FailedMsg(row) == _is_failure(row) /\ Truthy(MsgOf(row))
      DayOf(row) == Day(_get_start(row).n)
      FailedStart(row) == _is_failure(row) /\ IsTs(_get_start(row))
      report_totals == CountRows(NameOf, EveryRow, rows)
      report_failures == CountRows(NameOf, _is_failure, rows)
      engine_totals == CountRows(EngineOf, HasEngine, rows)
      engine_failures == CountRows(EngineOf, FailedEngine, rows)
      error_codes ==
        IF Has(avail, "error_code") THEN CountRows(CodeOf, FailedCode, rows)
        ELSE <<>>
      error_messages ==
        IF Has(avail, "error_message") THEN CountRows(MsgOf, FailedMsg, rows)
        ELSE <<>>
      daily_failures == CountRows(DayOf, FailedStart, rows)
      failures == Failures(rows)
      failure_count == Len(failures)
      DetailKey(e) == StrKey(e.start)
      failure_detail ==
        [k \in 1..Len(failures) |->
           LET row == rows[failures[k]]
               dur == _get_duration_seconds(row)
               qt == _get_queue_time_seconds(row)
               ae == Get(row, "actual_engine")
               status_id == Get(row, "report_execution_status_id")
           IN [report_name |-> GetD(row, "report_name", EmptyStr),
               status |-> IF status_id.n \in DOMAIN STATUS_LABELS
                          THEN Str(STATUS_LABELS[status_id.n])
                          ELSE UnknownLabel(status_id.n),
               start |-> FormatStart(_get_start(row)),
               duration_s |-> dur,
               queue_s |-> qt,
               engine |-> IF Populated(ae) THEN _engine_label(ae) ELSE EmptyStr,
               error_code |-> GetD(row, "error_code", EmptyStr),
               error_message |-> GetD(row, "error_message", EmptyStr)]]
      DayKey(e) == e[1]
      all_intervals == SortAsc(StartKey, Intervals(rows))
      CountKey(e) == e.concurrent_count
      concurrent_load ==
        ConcurrentLoad(rows, all_intervals, Take(failures, ConcurrentCap))
  IN [total_executions |-> total,
      failure_count |-> failure_count,
      failure_rate |-> IF total # 0 THEN Pct2(failure_count, total) ELSE 0,
      error_code_distribution |->
        IF error_codes # <<>> THEN MostCommon(error_codes) ELSE NoneVal,
      failures_per_day |-> SortAsc(DayKey, daily_failures),
      most_failing_reports |-> Take(MostCommon(report_failures), TopN),
      failure_detail |-> SortDesc(DetailKey, failure_detail),
      failure_rate_by_report |-> FailureRateByReport(report_totals, report_failures),
      failures_by_engine |->
        IF Has(avail, "actual_engine") /\ engine_totals # <<>>
        THEN [k \in 1..Len(engine_totals) |->
                LET eng == engine_totals[k][1]
                    t == engine_totals[k][2]
                    f == CounterGet(engine_failures, eng)
                IN [engine |-> eng, total |-> t, failures |-> f, rate |-> Pct1(f, t)]]
        ELSE NoneVal,
      failures_by_hour |->
        [h \in 0..(HoursPerDay - 1) |->
           Cardinality({i \in 1..Len(rows) : FailedStart(rows[i])
                                              /\ Hour(_get_start(rows[i]).n) = h})],
      concurrent_load_at_failure |-> SortDesc(CountKey, concurrent_load),
      error_message_groups |->
        IF error_messages # <<>> THEN MostCommon(error_messages) ELSE NoneVal]

\* ------------------------------------------------------------------ analyze_engine

\* the indices of the rows that satisfy Cond, in row order
SelectRows(Cond(_), rows) ==
  LET Keep(i) == Cond(rows[i]) IN SelectSeq(Indices(Len(rows)), Keep)

\* MismatchRate that reports 0.0 when no record has both values
MismatchRateZero(mismatch_count, total_with_both) ==
  IF total_with_both # NoneVal /\ total_with_both.n # 0
  THEN Num(Pct2(mismatch_count, total_with_both.n)) ELSE Num(0)

\* mismatch_rate = None; if total_with_both: round(len(mismatches) / total_with_both * 100, 2)
\* (None and 0 are false)
MismatchRate(mismatch_count, total_with_both) ==
  IF total_with_both # NoneVal /\ total_with_both.n # 0
  THEN Num(Pct2(mismatch_count, total_with_both.n)) ELSE NoneVal

analyze_engine(rows, avail) ==
  LET has_engine == Has(avail, "actual_engine")
      has_node == Has(avail, "route_to_node")
      has_both == Has(avail, "actual_engine") /\ Has(avail, "expected_engine")
      EngineOf(row) == _engine_label(Get(row, "actual_engine"))
      HasEngine(row) == has_engine /\ Populated(Get(row, "actual_engine"))
      NodeOf(row) == GetD(row, "route_to_node", EmptyStr)
      HasNode(row) == has_node /\ Truthy(NodeOf(row))
      Mismatch(row) ==
        /\ has_both
        /\ Populated(Get(row, "actual_engine"))
        /\ Populated(Get(row, "expected_engine"))
        /\ Get(row, "actual_engine") # Get(row, "expected_engine")
      Both(row) ==
        Populated(Get(row, "actual_engine")) /\ Populated(Get(row, "expected_engine"))
      engine_counts == CountRows(EngineOf, HasEngine, rows)
      node_counts == CountRows(NodeOf, HasNode, rows)
      mismatches == SelectRows(Mismatch, rows)
      total_with_both == IF has_both THEN Num(Len(SelectRows(Both, rows))) ELSE NoneVal
      sampled == Take(mismatches, TopN)
  IN IF ~(has_engine \/ has_node) THEN NoneVal
     ELSE [load_per_engine |->
             IF engine_counts # <<>> THEN MostCommon(engine_counts) ELSE NoneVal,
           load_per_node |->
             IF node_counts # <<>> THEN MostCommon(node_counts) ELSE NoneVal,
           mismatch_rate |-> MismatchRate(Len(mismatches), total_with_both),
           mismatch_samples |->
             IF mismatches # <<>>
             THEN [k \in 1..Len(sampled) |->
                     [report_name |-> GetD(rows[sampled[k]], "report_name", EmptyStr),
                      expected |-> _engine_label(Get(rows[sampled[k]], "expected_engine")),
                      actual |-> _engine_label(Get(rows[sampled[k]], "actual_engine"))]]
             ELSE NoneVal]

\* ------------------------------------------------------------------ analyze_performance

\* min(values) and max(values) of a non-empty list
MinSeq(s) == LET Step(m, i) == IF s[i] < m THEN s[i] ELSE m IN Loop(Step, s[1], 2, Len(s))

MaxSeq(s) == LET Step(m, i) == IF s[i] > m THEN s[i] ELSE m IN Loop(Step, s[1], 2, Len(s))

\* round(mean(values), 2) in hundredths; the values are not negative
MeanOf(s) == RoundHalfEven(SumSeq(s) * 100, Len(s))

\* round(median(values), 2) in hundredths: the middle value, or the mean of the
\* two middle values
MedianOf(s) ==
  LET Id(x) == x
      sorted == SortAsc(Id, s)
      n == Len(s)
  IN IF n % 2 = 1 THEN 100 * sorted[(n + 1) \div 2]
     ELSE 50 * (sorted[n \div 2] + sorted[n \div 2 + 1])

\* {"min": ..., "max": ..., "mean": ..., "median": ...} if values else None
StatsOf(s) ==
  IF s = <<>> THEN NoneVal
  ELSE [min |-> MinSeq(s), max |-> MaxSeq(s), mean |-> MeanOf(s), median |-> MedianOf(s)]

\* [row.get(col) for row in rows if isinstance(row.get(col), int)]
IntValues(rows, col) ==
  LET IsIntCol(row) == IsInt(Get(row, col))
      idx == SelectRows(IsIntCol, rows)
  IN [k \in 1..Len(idx) |-> Get(rows[idx[k]], col).n]

QueueTimes(rows) ==
  LET HasQueue(row) == ~IsNone(_get_queue_time_seconds(row))
                         /\ _get_queue_time_seconds(row).n >= 0
      idx == SelectRows(HasQueue, rows)
  IN [k \in 1..Len(idx) |-> _get_queue_time_seconds(rows[idx[k]]).n]

\* dur is not None and dur >= 0
Timed(row) == ~IsNone(_get_duration_seconds(row)) /\ _get_duration_seconds(row).n >= 0

ScatterCap == 500

analyze_performance(rows, avail) ==
  LET has_start == Has(avail, "start_datetime") \/ Has(avail, "birt_report_starttime")
      has_end == Has(avail, "end_datetime") \/ Has(avail, "birt_report_endtime")
      DurKey(i) == _get_duration_seconds(rows[i]).n
      timed_rows == SortDesc(DurKey, SelectRows(Timed, rows))
      top == Take(timed_rows, TopN)
      SizedAt(k) == IsInt(Get(rows[timed_rows[k]], "output_file_size"))
      sized == SelectSeq([k \in 1..Len(timed_rows) |-> k], SizedAt)
      points == [k \in 1..Len(sized) |->
                   [name |-> GetD(rows[timed_rows[sized[k]]], "report_name", EmptyStr),
                    duration_s |-> DurKey(timed_rows[sized[k]]),
                    size |-> Get(rows[timed_rows[sized[k]]], "output_file_size").n]]
  IN IF ~(has_start /\ has_end) THEN NoneVal
     ELSE IF timed_rows = <<>> THEN NoneVal
     ELSE [slowest_reports |->
             [k \in 1..Len(top) |->
                LET row == rows[top[k]]
                    ae == Get(row, "actual_engine")
                IN [report_name |-> GetD(row, "report_name", EmptyStr),
                    duration_s |-> DurKey(top[k]),
                    start |-> FormatStart(_get_start(row)),
                    engine |-> IF Populated(ae) THEN _engine_label(ae) ELSE NoneVal,
                    queue_s |-> _get_queue_time_seconds(row)]],
           duration_vs_size |->
             IF Has(avail, "output_file_size") /\ points # <<>>
             THEN Take(points, ScatterCap) ELSE NoneVal,
           object_count_stats |->
             IF Has(avail, "report_object_count")
             THEN StatsOf(IntValues(rows, "report_object_count")) ELSE NoneVal,
           file_size_stats |->
             IF Has(avail, "output_file_size")
             THEN StatsOf(IntValues(rows, "output_file_size")) ELSE NoneVal,
           queue_time_stats |->
             IF Has(avail, "start_datetime") /\ Has(avail, "birt_report_starttime")
             THEN StatsOf(QueueTimes(rows)) ELSE NoneVal]

\* ------------------------------------------------------------------ _build_tenant_json

TenantOverlapCap == 15
TenantTopN == 15
TenantConcurrentCap == 20
TenantDetailCap == 200
ExecutionCap == 500
P90MinSamples == 10

\* {} : the empty dict
EmptyDict == <<>>

\* the values Val(row) of the rows of one report that satisfy Cond, in row order
ValuesOf(Val(_), Cond(_), rows, idx) ==
  LET Keep(i) == Cond(rows[i])
      kept == SelectSeq(idx, Keep)
  IN [k \in 1..Len(kept) |-> Val(rows[kept[k]])]

\* one execution of the drill-down
Execution(row) ==
  LET ae == Get(row, "actual_engine")
      ee == Get(row, "expected_engine")
      status_id == Get(row, "report_execution_status_id")
      fs == Get(row, "output_file_size")
      oc == Get(row, "report_object_count")
      rn == Get(row, "route_to_node")
  IN [start |-> FormatStart(_get_start(row)),
      duration_s |-> _get_duration_seconds(row),
      queue_s |-> _get_queue_time_seconds(row),
      status |-> IF IsInt(status_id)
                 THEN IF status_id.n \in DOMAIN STATUS_LABELS
                      THEN Str(STATUS_LABELS[status_id.n])
                      ELSE UnknownLabel(status_id.n)
                 ELSE Or(status_id, EmptyStr),
      engine |-> IF Populated(ae) THEN _engine_label(ae) ELSE EmptyStr,
      expected_engine |-> IF Populated(ee) THEN _engine_label(ee) ELSE EmptyStr,
      node |-> IF Truthy(rn) THEN rn ELSE EmptyStr,
      file_size |-> IF IsInt(fs) THEN fs ELSE NoneVal,
      object_count |-> IF IsInt(oc) THEN oc ELSE NoneVal,
      error_code |-> GetD(row, "error_code", EmptyStr),
      error_message |-> GetD(row, "error_message", EmptyStr)]

ExecKey(e) == StrKey(e.start)

\* P90 by the nearest rank, the element number ceil(0.9 * n) counted from 1
P90Nearest(sorted_dur) ==
  IF Len(sorted_dur) >= P90MinSamples
  THEN Num(sorted_dur[(Len(sorted_dur) * 9 + 9) \div 10]) ELSE NoneVal

\* sorted_dur[int(len(sorted_dur) * 0.9)] if len(sorted_dur) >= 10 else None;
\* Python counts the indices from 0
P90(sorted_dur) ==
  IF Len(sorted_dur) >= P90MinSamples
  THEN Num(sorted_dur[(Len(sorted_dur) * 9) \div 10 + 1]) ELSE NoneVal

\* ReportEntry with the cap applied to the executions before they are sorted
ReportEntryCapFirst(name, total, failures, durations, queue_times, executions) ==
  [name |-> name,
   total |-> total,
   failures |-> failures,
   failure_rate |-> IF total # 0 THEN Pct2(failures, total) ELSE 0,
   avg_duration_s |-> IF durations # <<>> THEN Num(MeanOf(durations)) ELSE NoneVal,
   median_duration_s |-> IF durations # <<>> THEN Num(MedianOf(durations)) ELSE NoneVal,
   p90_duration_s |-> LET Id(x) == x IN P90(SortAsc(Id, durations)),
   max_duration_s |-> IF durations # <<>> THEN Num(MaxSeq(durations)) ELSE NoneVal,
   min_duration_s |-> IF durations # <<>> THEN Num(MinSeq(durations)) ELSE NoneVal,
   avg_queue_s |-> IF queue_times # <<>> THEN Num(MeanOf(queue_times)) ELSE NoneVal,
   max_queue_s |-> IF queue_times # <<>> THEN Num(MaxSeq(queue_times)) ELSE NoneVal,
   executions |-> SortAsc(ExecKey, Take(executions, ExecutionCap))]

\* the second loop of the drill-down: reports[name] of one bucket rb
ReportEntry(name, total, failures, durations, queue_times, executions) ==
  [name |-> name,
   total |-> total,
   failures |-> failures,
   failure_rate |-> IF total # 0 THEN Pct2(failures, total) ELSE 0,
   avg_duration_s |-> IF durations # <<>> THEN Num(MeanOf(durations)) ELSE NoneVal,
   median_duration_s |-> IF durations # <<>> THEN Num(MedianOf(durations)) ELSE NoneVal,
   p90_duration_s |-> LET Id(x) == x IN P90(SortAsc(Id, durations)),
   max_duration_s |-> IF durations # <<>> THEN Num(MaxSeq(durations)) ELSE NoneVal,
   min_duration_s |-> IF durations # <<>> THEN Num(MinSeq(durations)) ELSE NoneVal,
   avg_queue_s |-> IF queue_times # <<>> THEN Num(MeanOf(queue_times)) ELSE NoneVal,
   max_queue_s |-> IF queue_times # <<>> THEN Num(MaxSeq(queue_times)) ELSE NoneVal,
   executions |-> Take(SortAsc(ExecKey, executions), ExecutionCap)]

\* the first loop of the drill-down: the bucket of the rows idx of one report
ReportBucket(name, tenant_rows, idx) ==
  LET DurOf(row) == _get_duration_seconds(row).n
      QueueOf(row) == _get_queue_time_seconds(row).n
      Queued(row) == ~IsNone(_get_queue_time_seconds(row))
                       /\ _get_queue_time_seconds(row).n >= 0
  IN ReportEntry(name,
                 Len(idx),
                 Len(ValuesOf(DurOf, _is_failure, tenant_rows, idx)),
                 ValuesOf(DurOf, Timed, tenant_rows, idx),
                 ValuesOf(QueueOf, Queued, tenant_rows, idx),
                 [j \in 1..Len(idx) |-> Execution(tenant_rows[idx[j]])])

\* the per-report drill-down of one tenant: one entry per non-empty report name,
\* in first-seen order
ReportsOf(names, tenant_rows) ==
  [k \in 1..Len(names) |->
     LET OfName(row) == GetD(row, "report_name", EmptyStr) = names[k][1]
     IN ReportBucket(names[k][1], tenant_rows, SelectRows(OfName, tenant_rows))]

ReportDrillDown(tenant_rows) ==
  LET NameOf(row) == GetD(row, "report_name", EmptyStr)
      Named(row) == Truthy(NameOf(row))
  IN ReportsOf(CountRows(NameOf, Named, tenant_rows), tenant_rows)

\* strftime of a timestamp, str(start or "") of anything else
Stringify(v) == IF IsTs(v) THEN Strftime(v) ELSE Or(v, EmptyStr)

\* the rows of timing.overlapping_runs[:15], stringified
ShownOverlaps(tenant_rows, shown) ==
  [k \in 1..Len(shown) |->
     LET row == tenant_rows[shown[k]]
     IN [report_name |-> GetD(row, "report_name", EmptyStr),
         start_datetime |->
           Stringify(Or(Get(row, "start_datetime"), Get(row, "birt_report_starttime"))),
         end_datetime |->
           Stringify(Or(Get(row, "end_datetime"), Get(row, "birt_report_endtime")))]]

\* the dict _build_tenant_json returns, from the results of the five analyzers
TenantJson(inv, timing_, errors_, engine_, perf, reports) ==
  [unique_report_count |-> inv.unique_report_count,
   top_reports_by_frequency |-> Take(inv.top_reports_by_frequency, TenantTopN),
   reports_by_type |-> inv.reports_by_type,
   report_overview |-> inv.report_overview,
   parameter_variation_counts |->
     IF inv.parameter_variation_counts # NoneVal /\ inv.parameter_variation_counts # <<>>
     THEN inv.parameter_variation_counts ELSE NoneVal,
   duration_buckets |-> IF timing_ # NoneVal THEN timing_.duration_buckets ELSE EmptyDict,
   hourly_distribution |->
     IF timing_ # NoneVal THEN timing_.hourly_distribution ELSE EmptyDict,
   weekly_distribution |->
     IF timing_ # NoneVal THEN timing_.weekly_distribution ELSE EmptyDict,
   overlapping_runs |->
     IF timing_ # NoneVal THEN Take(timing_.overlapping_runs, TenantOverlapCap) ELSE <<>>,
   total_executions |-> errors_.total_executions,
   failure_count |-> errors_.failure_count,
   failure_rate |-> errors_.failure_rate,
   error_code_distribution |-> errors_.error_code_distribution,
   failures_per_day |-> errors_.failures_per_day,
   failure_rate_by_report |-> errors_.failure_rate_by_report,
   failures_by_hour |-> errors_.failures_by_hour,
   failures_by_engine |-> errors_.failures_by_engine,
   concurrent_load_at_failure |->
     Take(errors_.concurrent_load_at_failure, TenantConcurrentCap),
   error_message_groups |-> errors_.error_message_groups,
   failure_detail |-> Take(errors_.failure_detail, TenantDetailCap),
   load_per_engine |-> IF engine_ # NoneVal THEN engine_.load_per_engine ELSE NoneVal,
   load_per_node |-> IF engine_ # NoneVal THEN engine_.load_per_node ELSE NoneVal,
   mismatch_rate |-> IF engine_ # NoneVal THEN engine_.mismatch_rate ELSE NoneVal,
   mismatch_samples |-> IF engine_ # NoneVal THEN engine_.mismatch_samples ELSE NoneVal,
   slowest_reports |-> IF perf # NoneVal THEN perf.slowest_reports ELSE <<>>,
   duration_vs_size |-> IF perf # NoneVal THEN perf.duration_vs_size ELSE NoneVal,
   file_size_stats |-> IF perf # NoneVal THEN perf.file_size_stats ELSE NoneVal,
   object_count_stats |-> IF perf # NoneVal THEN perf.object_count_stats ELSE NoneVal,
   queue_time_stats |-> IF perf # NoneVal THEN perf.queue_time_stats ELSE NoneVal,
   reports |-> reports]

\* _build_tenant_json with the availability recomputed from the tenant's rows
_build_tenant_json_recomputed(tenant_rows, avail_) ==
  LET own == UNION {DOMAIN tenant_rows[k] : k \in 1..Len(tenant_rows)}
      json == TenantJson(analyze_inventory(tenant_rows, own),
                         analyze_timing(tenant_rows, own),
                         analyze_errors(tenant_rows, own),
                         analyze_engine(tenant_rows, own),
                         analyze_performance(tenant_rows, own),
                         ReportDrillDown(tenant_rows))
  IN [json EXCEPT !.overlapping_runs = ShownOverlaps(tenant_rows, @)]

\* _build_tenant_json without the slices of the two error lists
_build_tenant_json_uncapped(tenant_rows, avail_) ==
  LET errors_ == analyze_errors(tenant_rows, avail_)
      json == TenantJson(analyze_inventory(tenant_rows, avail_),
                         analyze_timing(tenant_rows, avail_),
                         errors_,
                         analyze_engine(tenant_rows, avail_),
                         analyze_performance(tenant_rows, avail_),
                         ReportDrillDown(tenant_rows))
  IN [json EXCEPT !.overlapping_runs = ShownOverlaps(tenant_rows, @),
                  !.concurrent_load_at_failure = errors_.concurrent_load_at_failure,
                  !.failure_detail = errors_.failure_detail]

\* sub_ds = Dataset(rows=tenant_rows, available_columns=dataset.available_columns, ...)
\* and the five analyzers on it
_build_tenant_json(tenant_rows, avail_) ==
  LET json == TenantJson(analyze_inventory(tenant_rows, avail_),
                         analyze_timing(tenant_rows, avail_),
                         analyze_errors(tenant_rows, avail_),
                         analyze_engine(tenant_rows, avail_),
                         analyze_performance(tenant_rows, avail_),
                         ReportDrillDown(tenant_rows))
  IN [json EXCEPT !.overlapping_runs = ShownOverlaps(tenant_rows, @)]

\* ------------------------------------------------------------------ run_all_analyses

\* GroupAdd that puts a row in front of its group
GroupAddFront(groups, sn, i) ==
  IF \E g \in 1..Len(groups) : groups[g].sn = sn
  THEN LET own == CHOOSE g \in 1..Len(groups) : groups[g].sn = sn
       IN [groups EXCEPT ![own].rows = <<i>> \o @]
  ELSE Append(groups, [sn |-> sn, rows |-> <<i>>])

\* tenant_groups.setdefault(str(sn), []).append(row): the groups in first-seen
\* order, each with the positions of its rows in dataset.rows
GroupAdd(groups, sn, i) ==
  IF \E g \in 1..Len(groups) : groups[g].sn = sn
  THEN LET own == CHOOSE g \in 1..Len(groups) : groups[g].sn = sn
       IN [groups EXCEPT ![own].rows = Append(@, i)]
  ELSE Append(groups, [sn |-> sn, rows |-> <<i>>])

\* for row in dataset.rows: ... if not sn: continue ...
TenantGroups(rows_) ==
  LET Step(groups, i) ==
        LET sn == GetD(rows_[i], "schema_name", EmptyStr)
        IN IF ~Truthy(sn) THEN groups ELSE GroupAdd(groups, sn, i)
  IN Loop(Step, <<>>, 1, Len(rows_))

\* TenantRows handing every row of the dataset to each tenant
TenantRowsAll(rows_, group) == rows_

\* the rows of a group, as the list handed to _build_tenant_json
TenantRows(rows_, group) == [k \in 1..Len(group.rows) |-> rows_[group.rows[k]]]

\* TenantSummary counting the report names of the rows without the set
TenantSummaryPerRow(rows_, group) ==
  LET trows == TenantRows(rows_, group)
      failure_count == Len(Failures(trows))
      unique_reports == Len(trows)
      total == Len(trows)
  IN [schema_name |-> group.sn,
      total_executions |-> total,
      failure_count |-> failure_count,
      failure_rate |-> IF total # 0 THEN Pct2(failure_count, total) ELSE 0,
      unique_reports |-> unique_reports]

TenantSummary(rows_, group) ==
  LET trows == TenantRows(rows_, group)
      failure_count == Len(Failures(trows))
      unique_reports ==
        Cardinality({GetD(trows[k], "report_name", EmptyStr) : k \in 1..Len(trows)})
      total == Len(trows)
  IN [schema_name |-> group.sn,
      total_executions |-> total,
      failure_count |-> failure_count,
      failure_rate |-> IF total # 0 THEN Pct2(failure_count, total) ELSE 0,
      unique_reports |-> unique_reports]

TotalKey(x) == x.total_executions

Summaries(rows_, groups) ==
  SortDesc(TotalKey, [g \in 1..Len(groups) |-> TenantSummary(rows_, groups[g])])

\* ------------------------------------------------------------------ the state machine

VARIABLES
  rows,             \* dataset.rows
  avail,            \* dataset.available_columns
  all_headers,      \* dataset.all_headers
  pc,               \* the position of run_all_analyses
  timing,           \* dd.timing
  inventory,        \* dd.inventory
  errors,           \* dd.errors
  engine,           \* dd.engine
  performance,      \* dd.performance
  tenant_groups,    \* tenant_groups of run_all_analyses
  tenant_summaries, \* dd.tenant_summaries
  per_tenant_json   \* dd.per_tenant_json, in the order of its keys

vars == <<rows, avail, all_headers, pc, timing, inventory, errors, engine, performance,
          tenant_groups, tenant_summaries, per_tenant_json>>

dataset == <<rows, avail, all_headers>>
results == <<timing, inventory, errors, engine, performance>>
tenants == <<tenant_groups, tenant_summaries, per_tenant_json>>

\* analyze_timing sorting dataset.rows itself by start instead of its own list
AnalyzeTimingInPlace ==
  /\ pc = "timing"
  /\ timing' = analyze_timing(rows, avail)
  /\ pc' = "inventory"
  /\ rows' = LET Key(row) == IF IsTs(_get_start(row)) THEN _get_start(row).n ELSE 0
             IN SortAsc(Key, rows)
  /\ UNCHANGED <<avail, all_headers, inventory, errors, engine, performance, tenants>>

AnalyzeTiming ==
  /\ pc = "timing"
  /\ timing' = analyze_timing(rows, avail)
  /\ pc' = "inventory"
  /\ UNCHANGED <<dataset, inventory, errors, engine, performance, tenants>>

AnalyzeInventory ==
  /\ pc = "inventory"
  /\ inventory' = analyze_inventory(rows, avail)
  /\ pc' = "errors"
  /\ UNCHANGED <<dataset, timing, errors, engine, performance, tenants>>

AnalyzeErrors ==
  /\ pc = "errors"
  /\ errors' = analyze_errors(rows, avail)
  /\ pc' = "engine"
  /\ UNCHANGED <<dataset, timing, inventory, engine, performance, tenants>>

AnalyzeEngine ==
  /\ pc = "engine"
  /\ engine' = analyze_engine(rows, avail)
  /\ pc' = "performance"
  /\ UNCHANGED <<dataset, timing, inventory, errors, performance, tenants>>

AnalyzePerformance ==
  /\ pc = "performance"
  /\ performance' = analyze_performance(rows, avail)
  /\ pc' = "partition"
  /\ UNCHANGED <<dataset, timing, inventory, errors, engine, tenants>>

\* if dataset.has(Column.SCHEMA_NAME): build tenant_groups
PartitionTenants ==
  /\ pc = "partition"
  /\ IF Has(avail, "schema_name")
     THEN /\ tenant_groups' = TenantGroups(rows)
          /\ pc' = IF TenantGroups(rows) # <<>> THEN "summaries" ELSE "done"
     ELSE /\ UNCHANGED tenant_groups
          /\ pc' = "done"
  /\ UNCHANGED <<dataset, results, tenant_summaries, per_tenant_json>>

\* if tenant_groups: build and sort the summaries
SummarizeTenants ==
  /\ pc = "summaries"
  /\ tenant_summaries' = Summaries(rows, tenant_groups)
  /\ per_tenant_json' = <<>>
  /\ pc' = "tenant_json"
  /\ UNCHANGED <<dataset, results, tenant_groups>>

\* one entry of the dict comprehension over tenant_groups.items()
BuildTenantJson ==
  /\ pc = "tenant_json"
  /\ LET g == tenant_groups[Len(per_tenant_json) + 1]
         built == Append(per_tenant_json,
                         [sn |-> g.sn, json |-> _build_tenant_json(TenantRows(rows, g), avail)])
     IN /\ per_tenant_json' = built
        /\ pc' = IF Len(built) = Len(tenant_groups) THEN "done" ELSE "tenant_json"
  /\ UNCHANGED <<dataset, results, tenant_groups, tenant_summaries>>

Next ==
  \/ AnalyzeTiming
  \/ AnalyzeInventory
  \/ AnalyzeErrors
  \/ AnalyzeEngine
  \/ AnalyzePerformance
  \/ PartitionTenants
  \/ SummarizeTenants
  \/ BuildTenantJson

\* ------------------------------------------------------------------ datasets of the loader

\* A loaded row holds a cell for each header of its own file; the availability
\* set is drawn from the headers of all files, so a row may lack an available
\* column but never holds a column that is not available.  Every row has a
\* non-empty report_name.
Absent == [tag |-> "absent", n |-> 0, s |-> ""]

\* the row with the cells of f that are not Absent
MkRow(f) == [c \in {d \in DOMAIN f : f[d] # Absent} |-> f[c]]

RowsUpTo(domain, max) == UNION {[1..n -> domain] : n \in 0..max}

Base == {"report_name", "report_execution_status_id"}

MaxIntervalRows == 3
MaxBucketRows == 2
MaxReportRows == 3
MaxEngineRows == 2
MaxTypeRows == 2
MaxPerfRows == 2
MaxTenantRows == 4
MaxCapRows == 51
MaxBulkRows == 501
MaxClockRows == 2
MaxPairRows == 1
MaxNameRows == 21
MaxRepeatRows == 2
MaxDurRows == 11

\* rows with an execution interval, failed or not, and a failed row with no end
IntervalPairs ==
  {<<Ts(0), Ts(1)>>, <<Ts(0), Ts(3)>>, <<Ts(1), Ts(2)>>, <<Ts(2), Ts(1)>>}

IntervalRow ==
  {MkRow([report_name |-> Str("A"), report_execution_status_id |-> Int_(st),
          start_datetime |-> p[1], end_datetime |-> p[2]]) :
     st \in {2, 3}, p \in IntervalPairs}
  \cup {MkRow([report_name |-> Str("A"), report_execution_status_id |-> Int_(3),
               start_datetime |-> Ts(1), end_datetime |-> EmptyStr])}

IntervalDatasets ==
  {[rows |-> r, avail |-> Base \cup {"start_datetime", "end_datetime"}] :
     r \in RowsUpTo(IntervalRow, MaxIntervalRows)}

\* rows with a duration at, just below and above each bucket boundary, a
\* negative duration and no duration
BucketProbes == {0, 1, 9, 10, 59, 60, 299, 300, 1799, 1800, 1801}

BucketRow ==
  {MkRow([report_name |-> Str("A"), report_execution_status_id |-> Int_(2),
          start_datetime |-> Ts(0), end_datetime |-> Ts(d)]) : d \in BucketProbes}
  \cup {MkRow([report_name |-> Str("A"), report_execution_status_id |-> Int_(2),
               start_datetime |-> Ts(1), end_datetime |-> Ts(0)]),
        MkRow([report_name |-> Str("A"), report_execution_status_id |-> Int_(2),
               start_datetime |-> Ts(1), end_datetime |-> Absent])}

BucketDatasets ==
  {[rows |-> r, avail |-> Base \cup {"start_datetime", "end_datetime"}] :
     r \in RowsUpTo(BucketRow, MaxBucketRows)}

\* rows of several reports with every kind of status cell
ReportRow ==
  {MkRow([report_name |-> Str(nm), report_execution_status_id |-> st]) :
     nm \in {"A", "B"}, st \in {Int_(2), Int_(3), Int_(5), EmptyStr}}

ReportDatasets ==
  {[rows |-> r, avail |-> Base] : r \in RowsUpTo(ReportRow, MaxReportRows)}

\* rows with actual and expected engine cells, under every availability of the
\* engine columns
EngineRow(av) ==
  {MkRow([report_name |-> Str("A"), report_execution_status_id |-> Int_(2),
          actual_engine |-> ae, expected_engine |-> ee, route_to_node |-> rn]) :
     ae \in IF "actual_engine" \in av THEN {Absent, EmptyStr, Int_(1), Int_(2)} ELSE {Absent},
     ee \in IF "expected_engine" \in av THEN {Absent, EmptyStr, Int_(1)} ELSE {Absent},
     rn \in IF "route_to_node" \in av THEN {Str("n1")} ELSE {Absent}}

EngineDatasets ==
  UNION {{[rows |-> r, avail |-> Base \cup av] : r \in RowsUpTo(EngineRow(av), MaxEngineRows)} :
           av \in SUBSET {"actual_engine", "expected_engine", "route_to_node"}}

\* rows with a report type cell, with and without the column
TypeRow(av) ==
  {MkRow([report_name |-> Str(nm), report_execution_status_id |-> Int_(2), report_type |-> rt]) :
     nm \in {"A", "B"},
     rt \in IF "report_type" \in av THEN {Absent, EmptyStr, Str("T1"), Str("T2")} ELSE {Absent}}

TypeDatasets ==
  UNION {{[rows |-> r, avail |-> Base \cup av] : r \in RowsUpTo(TypeRow(av), MaxTypeRows)} :
           av \in SUBSET {"report_type"}}

\* rows with timestamps, an object count and a file size, under every
\* availability of their columns
PerfRow(av) ==
  {MkRow([report_name |-> Str("A"), report_execution_status_id |-> Int_(2),
          start_datetime |-> sd, end_datetime |-> ed, birt_report_starttime |-> bs,
          report_object_count |-> oc, output_file_size |-> oc]) :
     sd \in IF "start_datetime" \in av THEN {Absent, Ts(0)} ELSE {Absent},
     ed \in IF "end_datetime" \in av THEN {Absent, Ts(5)} ELSE {Absent},
     bs \in IF "birt_report_starttime" \in av THEN {Absent, Ts(2)} ELSE {Absent},
     oc \in IF "report_object_count" \in av THEN {Int_(3), Str("x")} ELSE {Absent}}

PerfAvail ==
  {av \cup (IF "report_object_count" \in av THEN {"output_file_size"} ELSE {}) :
     av \in SUBSET {"start_datetime", "end_datetime", "birt_report_starttime",
                    "report_object_count"}}

PerfDatasets ==
  UNION {{[rows |-> r, avail |-> Base \cup av] : r \in RowsUpTo(PerfRow(av), MaxPerfRows)} :
           av \in PerfAvail}

\* rows of two tenants, of no tenant and without the tenant cell: plain rows
\* with no timestamps and failed rows, with an interval where the timestamp
\* columns are available
TenantRow(av) ==
  {MkRow([report_name |-> Str("A"), report_execution_status_id |-> Int_(2),
          schema_name |-> sn]) : sn \in {Absent, EmptyStr, Str("T1"), Str("T2")}}
  \cup {MkRow([report_name |-> Str("B"), report_execution_status_id |-> Int_(3),
               schema_name |-> sn,
               start_datetime |-> IF "start_datetime" \in av THEN Ts(0) ELSE Absent,
               end_datetime |-> IF "end_datetime" \in av THEN Ts(2) ELSE Absent]) :
          sn \in {Str("T2")}}

TenantDatasets ==
  UNION {{[rows |-> r, avail |-> Base \cup {"schema_name"} \cup av] :
            r \in RowsUpTo(TenantRow(av), MaxTenantRows)} :
           av \in {{}, {"start_datetime", "end_datetime"}}}

\* many failed rows with the same interval, and at most one more row behind them
CapRow ==
  MkRow([report_name |-> Str("A"), report_execution_status_id |-> Int_(3),
         start_datetime |-> Ts(0), end_datetime |-> Ts(2)])

CapTail ==
  {<<>>,
   <<MkRow([report_name |-> Str("B"), report_execution_status_id |-> Int_(2),
            start_datetime |-> Ts(1), end_datetime |-> Ts(3)])>>}

CapDatasets ==
  {[rows |-> [i \in 1..n |-> CapRow] \o t,
    avail |-> Base \cup {"start_datetime", "end_datetime"}] :
     n \in (MaxCapRows - 2)..MaxCapRows, t \in CapTail}

\* a tenant with very many failed executions of one report: the first row
\* starts last, the last row has no start, the rows between share a start;
\* the first MaxCapRows rows have an end
BulkRow(i, n) ==
  MkRow([report_name |-> Str("A"), report_execution_status_id |-> Int_(3),
         schema_name |-> Str("T1"),
         start_datetime |-> IF i = 1 THEN Ts(2) ELSE IF i = n THEN EmptyStr ELSE Ts(1),
         end_datetime |-> IF i <= MaxCapRows THEN Ts(3) ELSE EmptyStr])

BulkDatasets ==
  {[rows |-> [i \in 1..n |-> BulkRow(i, n)],
    avail |-> Base \cup {"schema_name", "start_datetime", "end_datetime"}] :
     n \in (MaxBulkRows - 1)..MaxBulkRows}

\* rows starting at the first and the last second of a Monday, on the Sunday
\* after it and on the Monday after that, failed or not, and rows with no start
ClockStarts == {0, 86399, 6 * 86400 + 3600, 7 * 86400}

ClockRow ==
  {MkRow([report_name |-> Str("A"), report_execution_status_id |-> Int_(st),
          start_datetime |-> sd, end_datetime |-> EmptyStr]) :
     st \in {2, 3}, sd \in {Ts(t) : t \in ClockStarts} \cup {EmptyStr}}

ClockDatasets ==
  {[rows |-> r, avail |-> Base \cup {"start_datetime", "end_datetime"}] :
     r \in RowsUpTo(ClockRow, MaxClockRows)}

\* rows with every combination of the four timestamp cells, each empty or a
\* timestamp, the requested start also a string that did not parse
PairRow ==
  {MkRow([report_name |-> Str("A"), report_execution_status_id |-> Int_(2),
          start_datetime |-> sd, end_datetime |-> ed,
          birt_report_starttime |-> bs, birt_report_endtime |-> be]) :
     sd \in {EmptyStr, Ts(0), Str("x")}, ed \in {EmptyStr, Ts(4)},
     bs \in {EmptyStr, Ts(1)}, be \in {EmptyStr, Ts(3)}}

PairDatasets ==
  {[rows |-> r,
    avail |-> Base \cup {"start_datetime", "end_datetime",
                         "birt_report_starttime", "birt_report_endtime"}] :
     r \in RowsUpTo(PairRow, MaxPairRows)}

\* failed rows of many reports, one each, and behind them rows, failed or not,
\* repeating the first, the second or the last of these reports
NameRow(i, st) ==
  MkRow([report_name |-> Str(ToString(i)), report_execution_status_id |-> Int_(st)])

NameDatasets ==
  {[rows |-> [i \in 1..n |-> NameRow(i, 3)]
               \o [k \in 1..Len(rep) |-> NameRow(rep[k][1], rep[k][2])],
    avail |-> Base] :
     n \in (MaxNameRows - 1)..MaxNameRows,
     rep \in RowsUpTo({1, 2, MaxNameRows - 1} \X {2, 3}, MaxRepeatRows)}

\* a tenant with about ten executions of one report, their durations distinct
\* and not in order, and behind them nothing, an execution of the same report
\* that ends before it starts, or an execution of another report
DurRow(nm, start, end) ==
  MkRow([report_name |-> Str(nm), report_execution_status_id |-> Int_(2),
         schema_name |-> Str("T1"), start_datetime |-> Ts(start), end_datetime |-> Ts(end)])

DurTail == {<<>>, <<DurRow("A", 5, 0)>>, <<DurRow("B", 0, 100)>>}

DurDatasets ==
  {[rows |-> [i \in 1..n |-> DurRow("A", 0, (i * 7) % 13)] \o t,
    avail |-> Base \cup {"schema_name", "start_datetime", "end_datetime"}] :
     n \in (MaxDurRows - 2)..MaxDurRows, t \in DurTail}

Datasets ==
  IntervalDatasets \cup BucketDatasets \cup ReportDatasets \cup EngineDatasets
    \cup TypeDatasets \cup PerfDatasets \cup TenantDatasets \cup CapDatasets
    \cup BulkDatasets \cup ClockDatasets \cup PairDatasets \cup NameDatasets
    \cup DurDatasets

\* all_headers = sorted(all_headers_set): the headers in alphabetical order
SortedColumns ==
  <<"actual_engine", "birt_report_endtime", "birt_report_starttime", "end_datetime",
    "error_code", "error_message", "error_stack", "expected_engine", "output_file_size",
    "parameters", "report_execution_status_id", "report_name", "report_object_count",
    "report_type", "requested_engine", "route_to_node", "schema_name", "start_datetime">>

SortedHeaders(av) == LET Known(h) == h \in av IN SelectSeq(SortedColumns, Known)

Init ==
  /\ \E d \in Datasets :
       rows = d.rows /\ avail = d.avail /\ all_headers = SortedHeaders(d.avail)
  /\ pc = "timing"
  /\ timing = Unset
  /\ inventory = Unset
  /\ errors = Unset
  /\ engine = Unset
  /\ performance = Unset
  /\ tenant_groups = <<>>
  /\ tenant_summaries = Unset
  /\ per_tenant_json = Unset

Spec == Init /\ [][Next]_vars

\* ------------------------------------------------------------------ properties

\* what the properties say about a dataset, stated on the rows themselves
RowIds == 1..Len(rows)

\* the bag of the elements of a sequence
SeqBag(q) == [e \in Range(q) |-> Cardinality({k \in DOMAIN q : q[k] = e})]

\* a record with a timestamp-typed start and end
HasInterval(i) == IsTs(_get_start(rows[i])) /\ IsTs(_get_end(rows[i]))
StartAt(i) == _get_start(rows[i]).n
EndAt(i) == _get_end(rows[i]).n

\* a record whose status code is an integer of the failure set
Failed(i) ==
  /\ "report_execution_status_id" \in DOMAIN rows[i]
  /\ rows[i]["report_execution_status_id"].tag = "int"
  /\ rows[i]["report_execution_status_id"].n \in {3, 5}

FailedIds == {i \in RowIds : Failed(i)}

\* the failed records before position i
FailedBefore(i) == Cardinality({j \in FailedIds : j < i})

\* x is num / den * 100 rounded to two decimals, in hundredths
IsPct2(x, num, den) ==
  LET d == x * den - num * 10000
      a == IF d < 0 THEN 0 - d ELSE d
  IN 2 * a <= den /\ (2 * a = den => x % 2 = 0)

\* C1: for every failed record F among the first 50 failures that has an interval,
\* analyze_errors reports the number of records other than F (by position) whose
\* interval overlaps F's, R.start < F.end and R.end > F.start; the reported
\* entries are exactly those of these failures.
C1_Others(f) ==
  {r \in RowIds \ {f} : HasInterval(r) /\ StartAt(r) < EndAt(f) /\ EndAt(r) > StartAt(f)}

C1_Reported ==
  LET Shown(f) == Failed(f) /\ FailedBefore(f) < 50 /\ HasInterval(f)
  IN SelectSeq([i \in RowIds |-> i], Shown)

C1_Entry(f) ==
  [report_name |-> rows[f]["report_name"],
   start |-> Strftime(_get_start(rows[f])),
   concurrent_count |-> Cardinality(C1_Others(f)),
   error_code |-> EmptyStr]

C1_Expected ==
  LET reported == C1_Reported IN [k \in 1..Len(reported) |-> C1_Entry(reported[k])]

C1_ConcurrentCount ==
  errors # Unset =>
    \A expected \in {C1_Expected} :
      SeqBag(errors.concurrent_load_at_failure) = SeqBag(expected)

\* two records with the same content, both failed, with the same interval: each
\* is reported with a count of 1
C1_Witness ==
  /\ errors # Unset
  /\ Len(rows) = 2
  /\ rows[1] = rows[2]
  /\ Failed(1) /\ HasInterval(1) /\ StartAt(1) < EndAt(1)
  /\ Len(errors.concurrent_load_at_failure) = 2
  /\ \A k \in 1..2 : errors.concurrent_load_at_failure[k].concurrent_count = 1

\* C2: overlapping_runs is the list of the records with an interval, stably
\* sorted by start, that belong to an adjacent pair in which the later start is
\* strictly before the earlier end, once each in first-flagged order, cut to 50.
C2_Expected ==
  LET \* by start, records with equal starts in dataset order
      Key(i) == StartAt(i) * (Len(rows) + 1) + i
      sorted == SortAsc(Key, SelectSeq([i \in RowIds |-> i], HasInterval))
      n == Len(sorted)
      \* the adjacent pair (k, k + 1) overlaps
      Pair(k) == k >= 1 /\ k < n /\ StartAt(sorted[k + 1]) < EndAt(sorted[k])
      Flagged(k) == Pair(k) \/ Pair(k - 1)
      \* when the record at position k is first flagged: by the pair before it
      \* (as its later record) or else by the pair it starts (as its earlier one)
      FirstFlag(k) == IF Pair(k - 1) THEN 2 * (k - 1) + 1 ELSE 2 * k
      flagged == SortAsc(FirstFlag, SelectSeq([k \in 1..n |-> k], Flagged))
  IN [m \in 1..Len(flagged) |-> sorted[flagged[m]]]

C2_OverlappingRuns ==
  (timing # Unset /\ timing # NoneVal) =>
    timing.overlapping_runs = SubSeq(C2_Expected, 1, Min2(50, Len(C2_Expected)))

\* three records: the second starts before the first ends, the third starts when
\* the second ends; the first two are listed, the third is not
C2_Witness ==
  /\ timing # Unset /\ timing # NoneVal
  /\ Len(rows) = 3
  /\ \A i \in 1..3 : HasInterval(i)
  /\ StartAt(2) < EndAt(1) /\ StartAt(1) <= StartAt(2)
  /\ StartAt(3) = EndAt(2) /\ StartAt(2) < StartAt(3)
  /\ timing.overlapping_runs = <<1, 2>>

\* C3: every record with a duration >= 0 increments exactly one bucket, the one
\* whose [lo, hi) holds the duration; the others increment none; the counts sum
\* to the number of records with a non-negative duration.
C3_HasDuration(i) ==
  ~IsNone(_get_duration_seconds(rows[i])) /\ _get_duration_seconds(rows[i]).n >= 0

C3_Holds(b, i) ==
  LET d == _get_duration_seconds(rows[i]).n
  IN d >= b.lo.n /\ (b.hi.tag = "inf" \/ d < b.hi.n)

C3_DurationBuckets ==
  (timing # Unset /\ timing # NoneVal) =>
    /\ \A i \in RowIds : C3_HasDuration(i) =>
         Cardinality({k \in 1..Len(_DURATION_BUCKETS) : C3_Holds(_DURATION_BUCKETS[k], i)}) = 1
    /\ \A k \in 1..Len(_DURATION_BUCKETS) :
         timing.duration_buckets[_DURATION_BUCKETS[k].label]
           = Cardinality({i \in RowIds : C3_HasDuration(i) /\ C3_Holds(_DURATION_BUCKETS[k], i)})
    /\ SumSeq([k \in 1..Len(_DURATION_BUCKETS) |->
                 timing.duration_buckets[_DURATION_BUCKETS[k].label]])
         = Cardinality({i \in RowIds : C3_HasDuration(i)})

\* a duration of exactly 60 seconds and a negative one: "1-5m" counts the first,
\* no bucket counts the second
C3_Witness ==
  /\ timing # Unset /\ timing # NoneVal
  /\ Len(rows) = 2
  /\ _get_duration_seconds(rows[1]) = Num(60)
  /\ ~IsNone(_get_duration_seconds(rows[2])) /\ _get_duration_seconds(rows[2]).n < 0
  /\ timing.duration_buckets["1-5m"] = 1
  /\ timing.duration_buckets["10s-1m"] = 0

\* C4: failure_count is the number of records whose status code is an integer in
\* {3, 5}; failure_count <= total_executions = number of records; failure_rate
\* is failure_count / total_executions * 100 rounded to 2 decimals, 0.0 with no
\* records.
C4_FailureRate ==
  errors # Unset =>
    /\ errors.failure_count = Cardinality(FailedIds)
    /\ errors.total_executions = Len(rows)
    /\ errors.failure_count <= errors.total_executions
    /\ IF Len(rows) = 0 THEN errors.failure_rate = 0
       ELSE IsPct2(errors.failure_rate, errors.failure_count, errors.total_executions)

\* three records, one FAILED, one SUSPENDED, one with a status that is no
\* integer: 2 failures, 66.67 percent
C4_Witness ==
  /\ errors # Unset
  /\ Len(rows) = 3
  /\ \E i, j, k \in RowIds :
       /\ rows[i]["report_execution_status_id"] = Int_(3)
       /\ rows[j]["report_execution_status_id"] = Int_(5)
       /\ rows[k]["report_execution_status_id"] = EmptyStr
  /\ errors.failure_count = 2
  /\ errors.failure_rate = 6667

\* C5: failure_rate_by_report has exactly one row per distinct report name, the
\* totals sum to total_executions, the failures sum to failure_count, and
\* failures <= total in each row.
C5_Names == {rows[i]["report_name"] : i \in RowIds}

C5_FailureRateByReport ==
  errors # Unset =>
    LET table == errors.failure_rate_by_report
    IN /\ {table[k].name : k \in DOMAIN table} = C5_Names
       /\ Len(table) = Cardinality(C5_Names)
       /\ SumSeq([k \in DOMAIN table |-> table[k].total]) = errors.total_executions
       /\ SumSeq([k \in DOMAIN table |-> table[k].failures]) = errors.failure_count
       /\ \A k \in DOMAIN table : table[k].failures <= table[k].total

\* two reports, one with a failure and one without
C5_Witness ==
  /\ errors # Unset
  /\ Len(rows) = 3
  /\ Cardinality(C5_Names) = 2
  /\ Cardinality(FailedIds) = 1
  /\ Len(errors.failure_rate_by_report) = 2
  /\ \E k \in 1..2 : /\ errors.failure_rate_by_report[k].failures = 0
                     /\ errors.failure_rate_by_report[k].total >= 1

\* C6: mismatch_rate is None whenever no record has both actual and expected
\* engine present and non-empty (the analyzer may then return no result at all);
\* otherwise it is m / b * 100 rounded to 2 decimals, b the records with both and
\* m those of them whose two values differ.
C6_Present(i, col) ==
  col \in DOMAIN rows[i] /\ rows[i][col].tag # "none" /\ rows[i][col] # EmptyStr

C6_Both == {i \in RowIds : C6_Present(i, "actual_engine") /\ C6_Present(i, "expected_engine")}

C6_Differ == {i \in C6_Both : rows[i]["actual_engine"] # rows[i]["expected_engine"]}

\* the mismatch rate of a result, as _build_tenant_json reads it
C6_RateOf(result) == IF result = NoneVal THEN NoneVal ELSE result.mismatch_rate

C6_MismatchRate ==
  engine # Unset =>
    IF C6_Both = {} THEN C6_RateOf(engine) = NoneVal
    ELSE /\ engine # NoneVal
         /\ engine.mismatch_rate.tag = "num"
         /\ IsPct2(engine.mismatch_rate.n, Cardinality(C6_Differ), Cardinality(C6_Both))

\* both engine columns are available and a record has its actual engine, yet no
\* record has both values: the result is there and its mismatch_rate is None
C6_Witness ==
  /\ engine # Unset /\ engine # NoneVal
  /\ {"actual_engine", "expected_engine"} \subseteq avail
  /\ \E i \in RowIds : C6_Present(i, "actual_engine")
  /\ C6_Both = {}
  /\ engine.mismatch_rate = NoneVal

\* C7: reports_by_type is None if and only if the report-type column is not
\* available; with the column available and no record with a non-empty type it
\* is the empty mapping.
C7_Typed == {i \in RowIds : "report_type" \in DOMAIN rows[i] /\ rows[i]["report_type"].s # ""}

C7_ReportsByType ==
  inventory # Unset =>
    /\ (inventory.reports_by_type = NoneVal) <=> ("report_type" \notin avail)
    /\ ("report_type" \in avail /\ C7_Typed = {}) => inventory.reports_by_type = <<>>

\* C8: analyze_performance returns a result if and only if analyze_timing does,
\* whatever the number of records with a valid duration; and each of its
\* object-count, output-size and queue-time statistics is populated whenever its
\* columns are available and a record holds a valid value.
C8_IntCell(i, col) == col \in DOMAIN rows[i] /\ rows[i][col].tag = "int"

C8_Queued(i) ==
  /\ "start_datetime" \in DOMAIN rows[i] /\ rows[i]["start_datetime"].tag = "ts"
  /\ "birt_report_starttime" \in DOMAIN rows[i] /\ rows[i]["birt_report_starttime"].tag = "ts"
  /\ rows[i]["birt_report_starttime"].n >= rows[i]["start_datetime"].n

C8_SameApplicability ==
  (timing # Unset /\ performance # Unset) =>
    /\ (performance # NoneVal) <=> (timing # NoneVal)
    /\ ("report_object_count" \in avail /\ \E i \in RowIds : C8_IntCell(i, "report_object_count"))
         => (performance # NoneVal /\ performance.object_count_stats # NoneVal)
    /\ ("output_file_size" \in avail /\ \E i \in RowIds : C8_IntCell(i, "output_file_size"))
         => (performance # NoneVal /\ performance.file_size_stats # NoneVal)
    /\ ({"start_datetime", "birt_report_starttime"} \subseteq avail /\ \E i \in RowIds : C8_Queued(i))
         => (performance # NoneVal /\ performance.queue_time_stats # NoneVal)

\* C9: every tenant partition is analysed with the availability set of the
\* parent dataset: the timing results of a tenant are there (six buckets, 24
\* hours, 7 days) exactly when the parent's availability set has a start and an
\* end column, with zero counts for a tenant whose records hold no timestamp.
C9_TimingAvailable ==
  /\ ("start_datetime" \in avail \/ "birt_report_starttime" \in avail)
  /\ ("end_datetime" \in avail \/ "birt_report_endtime" \in avail)

\* the records of tenant sn
C9_Members(sn) == {i \in RowIds : "schema_name" \in DOMAIN rows[i] /\ rows[i]["schema_name"] = sn}

C9_NoTimestamps(sn) ==
  \A i \in C9_Members(sn) :
    \A col \in {"start_datetime", "end_datetime", "birt_report_starttime", "birt_report_endtime"} :
      col \notin DOMAIN rows[i]

C9_SharedAvailability ==
  per_tenant_json # Unset =>
    \A k \in 1..Len(per_tenant_json) :
      LET t == per_tenant_json[k]
      IN IF C9_TimingAvailable
         THEN /\ DOMAIN t.json.duration_buckets = {"<1s", "1-10s", "10s-1m", "1-5m", "5-30m", "30m+"}
              /\ DOMAIN t.json.hourly_distribution = 0..23
              /\ DOMAIN t.json.weekly_distribution = 1..7
              /\ C9_NoTimestamps(t.sn) =>
                   /\ \A l \in DOMAIN t.json.duration_buckets : t.json.duration_buckets[l] = 0
                   /\ \A h \in 0..23 : t.json.hourly_distribution[h] = 0
                   /\ \A d \in 1..7 : t.json.weekly_distribution[d] = 0
         ELSE /\ t.json.duration_buckets = <<>>
              /\ t.json.hourly_distribution = <<>>
              /\ t.json.weekly_distribution = <<>>

\* the timestamp columns are available, another tenant has timestamps, and the
\* tenant built first has none: its timing results are there, all zero
C9_Witness ==
  /\ per_tenant_json # Unset
  /\ Len(per_tenant_json) = 2
  /\ C9_TimingAvailable
  /\ C9_NoTimestamps(per_tenant_json[1].sn)
  /\ ~C9_NoTimestamps(per_tenant_json[2].sn)
  /\ per_tenant_json[1].json.duration_buckets["<1s"] = 0
  /\ per_tenant_json[2].json.duration_buckets["1-10s"] >= 1

\* C10: with the tenant column available, every record with a non-empty tenant
\* value is in exactly one partition, the one of its tenant value; the others
\* are in none; each partition keeps the dataset order; the summaries' total
\* executions sum to the number of records with a non-empty tenant value.
C10_Tenanted == {i \in RowIds : "schema_name" \in DOMAIN rows[i] /\ rows[i]["schema_name"].s # ""}

C10_Partitioned == pc \in {"summaries", "tenant_json", "done"} /\ "schema_name" \in avail

C10_Partition ==
  C10_Partitioned =>
    /\ \A i \in C10_Tenanted :
         /\ Cardinality({g \in 1..Len(tenant_groups) :
                           \E k \in 1..Len(tenant_groups[g].rows) : tenant_groups[g].rows[k] = i}) = 1
         /\ \A g \in 1..Len(tenant_groups) :
              (\E k \in 1..Len(tenant_groups[g].rows) : tenant_groups[g].rows[k] = i)
                => /\ tenant_groups[g].sn = rows[i]["schema_name"]
                   /\ Cardinality({k \in 1..Len(tenant_groups[g].rows) :
                                     tenant_groups[g].rows[k] = i}) = 1
    /\ \A g \in 1..Len(tenant_groups) :
         /\ \A k \in 1..Len(tenant_groups[g].rows) : tenant_groups[g].rows[k] \in C10_Tenanted
         /\ \A k \in 1..(Len(tenant_groups[g].rows) - 1) :
              tenant_groups[g].rows[k] < tenant_groups[g].rows[k + 1]
    /\ IF tenant_summaries = Unset THEN pc # "done" \/ C10_Tenanted = {}
       ELSE /\ SumSeq([k \in 1..Len(tenant_summaries) |-> tenant_summaries[k].total_executions])
                 = Cardinality(C10_Tenanted)
            /\ Cardinality(C10_Tenanted) <= errors.total_executions

\* two records of one tenant around a record of another, and a record of none
C10_Witness ==
  /\ pc = "done"
  /\ Len(rows) = 4
  /\ Len(tenant_groups) = 2
  /\ tenant_groups[1].rows = <<1, 3>>
  /\ tenant_groups[2].rows = <<2>>
  /\ 4 \notin C10_Tenanted
  /\ tenant_summaries # Unset
  /\ tenant_summaries[1].total_executions = 2

\* C11 (as stated): the failure-detail list never has more than 200 entries and
\* the concurrent-load-at-failure list never more than 20, in the global error
\* analysis and in every tenant's nested structure.
C11_DetailAndLoadCaps ==
  /\ errors # Unset =>
       /\ Len(errors.failure_detail) <= 200
       /\ Len(errors.concurrent_load_at_failure) <= 20
  /\ per_tenant_json # Unset =>
       \A k \in 1..Len(per_tenant_json) :
         /\ Len(per_tenant_json[k].json.failure_detail) <= 200
         /\ Len(per_tenant_json[k].json.concurrent_load_at_failure) <= 20

\* C11 (amended): in every tenant's nested structure the failure-detail list
\* holds the first 200 entries of the tenant's failures, one entry per failure
\* when there are fewer, and the concurrent-load list holds at most 20 entries;
\* in the global error analysis the failure-detail list holds one entry per
\* failed record, however many, and the concurrent-load list at most 50 entries.
C11_TenantFailures(k) ==
  {i \in FailedIds : "schema_name" \in DOMAIN rows[i]
                       /\ rows[i]["schema_name"] = per_tenant_json[k].sn}

C11_Caps ==
  /\ errors # Unset =>
       /\ Len(errors.failure_detail) = Cardinality(FailedIds)
       /\ Len(errors.concurrent_load_at_failure) <= 50
  /\ per_tenant_json # Unset =>
       \A k \in 1..Len(per_tenant_json) :
         /\ Len(per_tenant_json[k].json.failure_detail)
              = Min2(Cardinality(C11_TenantFailures(k)), 200)
         /\ Len(per_tenant_json[k].json.concurrent_load_at_failure) <= 20

\* a tenant with more than 200 failures, more than 50 of them with an interval:
\* the tenant's lists are cut to 200 and 20 entries, the global ones hold every
\* failure and 50 entries
C11_Witness ==
  /\ pc = "done"
  /\ per_tenant_json # Unset
  /\ Len(per_tenant_json) = 1
  /\ Cardinality(C11_TenantFailures(1)) > 200
  /\ Len(per_tenant_json[1].json.failure_detail) = 200
  /\ Len(per_tenant_json[1].json.concurrent_load_at_failure) = 20
  /\ Len(errors.failure_detail) > 200
  /\ Len(errors.concurrent_load_at_failure) = 50

\* C12: whenever analyze_timing is applicable, the empty dataset included,
\* hourly_distribution has exactly the keys 0..23 and weekly_distribution the
\* seven days Monday..Sunday in that order; an hour or day with no record is
\* zero, and each distribution sums to the number of records with a
\* timestamp-typed start.  failures_by_hour of analyze_errors has the keys
\* 0..23 likewise and sums to the number of failed records with such a start.
C12_Started == {i \in RowIds : IsTs(_get_start(rows[i]))}
C12_HourOf(i) == (StartAt(i) % 86400) \div 3600
C12_DayOf(i) == _DAY_NAMES[((StartAt(i) \div 86400) % 7) + 1]
RECURSIVE C12_Total(_, _, _)
C12_Total(dist, first, last) ==
  IF first > last THEN 0 ELSE dist[first] + C12_Total(dist, first + 1, last)

C12_Distributions ==
  \A started \in {C12_Started} :
    /\ (timing # Unset /\ timing # NoneVal) =>
         /\ DOMAIN timing.hourly_distribution = 0..23
         /\ DOMAIN timing.weekly_distribution = 1..7
         /\ _DAY_NAMES = <<"Monday", "Tuesday", "Wednesday", "Thursday", "Friday",
                           "Saturday", "Sunday">>
         /\ \A h \in 0..23 :
              (\A i \in started : C12_HourOf(i) # h) => timing.hourly_distribution[h] = 0
         /\ \A d \in 1..7 :
              (\A i \in started : C12_DayOf(i) # _DAY_NAMES[d])
                => timing.weekly_distribution[d] = 0
         /\ C12_Total(timing.hourly_distribution, 0, 23) = Cardinality(started)
         /\ C12_Total(timing.weekly_distribution, 1, 7) = Cardinality(started)
    /\ errors # Unset =>
         \A failed \in {started \cap FailedIds} :
           /\ DOMAIN errors.failures_by_hour = 0..23
           /\ \A h \in 0..23 :
                (\A i \in failed : C12_HourOf(i) # h) => errors.failures_by_hour[h] = 0
           /\ C12_Total(errors.failures_by_hour, 0, 23) = Cardinality(failed)

\* a failed record starting in the last hour of a Monday and a successful one
\* starting on a Sunday at one o'clock, neither with an end
C12_Witness ==
  /\ errors # Unset
  /\ timing # NoneVal
  /\ Len(rows) = 2
  /\ Failed(1) /\ ~Failed(2)
  /\ timing.hourly_distribution[23] = 1
  /\ timing.hourly_distribution[1] = 1
  /\ timing.hourly_distribution[0] = 0
  /\ timing.weekly_distribution[1] = 1
  /\ timing.weekly_distribution[7] = 1
  /\ timing.weekly_distribution[2] = 0
  /\ errors.failures_by_hour[23] = 1
  /\ errors.failures_by_hour[1] = 0

\* C13: run_all_analyses leaves its input unchanged: no step of the five
\* analyzers or of the tenant fan-out changes dataset.rows (the same records in
\* the same order, each with the same fields and values), the availability set
\* or the header list.
C13_InputUnchanged ==
  [][rows' = rows /\ avail' = avail /\ all_headers' = all_headers]_vars

\* the run is over, tenants included, on records that are not in start order
C13_Witness ==
  /\ pc = "done"
  /\ per_tenant_json # Unset
  /\ Len(rows) >= 2
  /\ IsTs(_get_start(rows[1])) /\ IsTs(_get_start(rows[2]))
  /\ StartAt(1) > StartAt(2)
  /\ all_headers # <<>>

\* C14: a tenant's nested result and its TenantSummary are a function of the
\* tenant's own records, in order, and of the shared availability set: a second
\* dataset with the same availability set and the same sequence of records of
\* tenant T, whose other records are removed, or are moved in front of T's in
\* reverse order (so that the tenants are processed in another order), gives
\* the same structure and the same summary for T.
C14_IsOf(row, sn) == "schema_name" \in DOMAIN row /\ row["schema_name"] = sn

C14_Own(sn) == LET Mine(row) == C14_IsOf(row, sn) IN SelectSeq(rows, Mine)

C14_Moved(sn) ==
  LET Other(row) == ~C14_IsOf(row, sn)
      others == SelectSeq(rows, Other)
  IN [k \in 1..Len(others) |-> others[Len(others) + 1 - k]] \o C14_Own(sn)

C14_Variants(sn) == {C14_Own(sn), C14_Moved(sn)}

C14_GroupIn(rows2, sn) ==
  LET groups == TenantGroups(rows2)
  IN groups[CHOOSE g \in 1..Len(groups) : groups[g].sn = sn]

C14_OwnRecordsOnly ==
  /\ tenant_summaries # Unset =>
       \A k \in 1..Len(tenant_summaries) :
         \A rows2 \in C14_Variants(tenant_summaries[k].schema_name) :
           \A group2 \in {C14_GroupIn(rows2, tenant_summaries[k].schema_name)} :
             TenantSummary(rows2, group2) = tenant_summaries[k]
  /\ per_tenant_json # Unset =>
       \A k \in 1..Len(per_tenant_json) :
         \A rows2 \in C14_Variants(per_tenant_json[k].sn) :
           \A group2 \in {C14_GroupIn(rows2, per_tenant_json[k].sn)} :
             \A tenant_rows2 \in {TenantRows(rows2, group2)} :
               _build_tenant_json(tenant_rows2, avail) = per_tenant_json[k].json

\* two tenants whose records alternate, one with a failed execution with an
\* interval: both results are built, and both variants of the dataset differ
\* from it
C14_Witness ==
  /\ pc = "done"
  /\ per_tenant_json # Unset
  /\ Len(per_tenant_json) = 2
  /\ Len(rows) >= 3
  /\ C14_IsOf(rows[1], per_tenant_json[1].sn)
  /\ C14_IsOf(rows[2], per_tenant_json[2].sn)
  /\ C14_IsOf(rows[3], per_tenant_json[1].sn)
  /\ per_tenant_json[2].json.failure_count = 1
  /\ per_tenant_json[1].json.failure_count = 0
  /\ \A k \in 1..2 : rows \notin C14_Variants(per_tenant_json[k].sn)

\* C15: on intervals with start < end, every record analyze_timing lists in
\* overlapping_runs overlaps another record under the pairwise test of
\* analyze_errors (other.start < R.end and other.end > R.start), but not every
\* such record is listed: where a long interval covers two shorter ones that do
\* not overlap each other, a record overlapping the long one is absent from
\* overlapping_runs although fewer than 50 records are flagged.
C15_Proper == \A i \in RowIds : HasInterval(i) => StartAt(i) < EndAt(i)

C15_Overlaps(r) ==
  /\ HasInterval(r)
  /\ \E o \in RowIds \ {r} :
       HasInterval(o) /\ StartAt(o) < EndAt(r) /\ EndAt(o) > StartAt(r)

C15_Timed == timing # Unset /\ timing # NoneVal

C15_FlaggedOverlap ==
  (C15_Timed /\ C15_Proper) =>
    \A k \in 1..Len(timing.overlapping_runs) : C15_Overlaps(timing.overlapping_runs[k])

\* the long interval l covers the intervals a and then b, which do not overlap
\* each other; b overlaps l and is not listed
C15_Witness ==
  /\ C15_Timed
  /\ C15_Proper
  /\ Len(timing.overlapping_runs) < 50
  /\ \E l, a, b \in RowIds :
       /\ HasInterval(l) /\ HasInterval(a) /\ HasInterval(b)
       /\ l # a /\ l # b /\ a # b
       /\ StartAt(l) <= StartAt(a) /\ EndAt(a) <= StartAt(b) /\ EndAt(b) <= EndAt(l)
       /\ C15_Overlaps(b)
       /\ StartAt(l) < EndAt(b) /\ EndAt(l) > StartAt(b)
       /\ \A k \in 1..Len(timing.overlapping_runs) : timing.overlapping_runs[k] # b
       /\ \E k \in 1..Len(timing.overlapping_runs) : timing.overlapping_runs[k] = l

\* C16 (as stated): a record's duration takes both endpoints from the same
\* timestamp pair: where it is defined it is requested-end minus
\* requested-start with both timestamp-typed, or engine-observed-end minus
\* engine-observed-start with both timestamp-typed, the requested pair first;
\* the start of one pair is never combined with the end of the other.
C16_Requested(row) ==
  /\ IsTs(Get(row, "start_datetime"))
  /\ IsTs(Get(row, "end_datetime"))

C16_Observed(row) ==
  /\ IsTs(Get(row, "birt_report_starttime"))
  /\ IsTs(Get(row, "birt_report_endtime"))

C16_SamePair ==
  timing # Unset =>
    \A i \in RowIds :
      LET row == rows[i]
          dur == _get_duration_seconds(row)
      IN /\ C16_Requested(row)
              => dur = Num(row["end_datetime"].n - row["start_datetime"].n)
         /\ dur # NoneVal =>
              \/ /\ C16_Requested(row)
                 /\ dur = Num(row["end_datetime"].n - row["start_datetime"].n)
              \/ /\ C16_Observed(row)
                 /\ dur = Num(row["birt_report_endtime"].n - row["birt_report_starttime"].n)

\* C17: top_reports_by_frequency lists at most 20 (report name, count) pairs,
\* each count the number of records with that name, by count descending and,
\* among equal counts, the name first encountered in dataset order first; a
\* name outside the list never has a larger count than a name inside it.
\* most_failing_reports of analyze_errors follows the same rule over the failed
\* records.
C17_Name(i) == rows[i]["report_name"]
C17_Count(ids, name) == Cardinality({i \in ids : C17_Name(i) = name})
C17_First(ids, name) == CHOOSE i \in ids : C17_Name(i) = name /\ \A j \in ids : j < i => C17_Name(j) # name

\* the name m comes before the name o in the order of the claim
C17_Before(ids, m, o) ==
  \/ C17_Count(ids, m) > C17_Count(ids, o)
  \/ /\ C17_Count(ids, m) = C17_Count(ids, o)
     /\ C17_First(ids, m) < C17_First(ids, o)

C17_Ranked(top, ids) ==
  LET names == {C17_Name(i) : i \in ids}
      listed == {top[k][1] : k \in 1..Len(top)}
  IN /\ Len(top) = Min2(Cardinality(names), 20)
     /\ listed \subseteq names
     /\ Cardinality(listed) = Len(top)
     /\ \A k \in 1..Len(top) : top[k][2] = C17_Count(ids, top[k][1])
     /\ \A k \in 1..(Len(top) - 1) : C17_Before(ids, top[k][1], top[k + 1][1])
     /\ \A o \in names \ listed : \A m \in listed :
          C17_Before(ids, m, o) /\ C17_Count(ids, o) <= C17_Count(ids, m)

C17_TopReports ==
  /\ inventory # Unset => C17_Ranked(inventory.top_reports_by_frequency, RowIds)
  /\ errors # Unset => C17_Ranked(errors.most_failing_reports, FailedIds)

\* more than 20 reports, each with one failure, the second with two more
\* records that did not fail: it is listed first by frequency, the reports with
\* one record follow in dataset order and the last of them are left out; by
\* failures all are equal and the first 20 are listed in dataset order
C17_Witness ==
  /\ errors # Unset
  /\ Cardinality({C17_Name(i) : i \in RowIds}) > 20
  /\ Cardinality({C17_Name(i) : i \in FailedIds}) > 20
  /\ Len(inventory.top_reports_by_frequency) = 20
  /\ Len(errors.most_failing_reports) = 20
  /\ inventory.top_reports_by_frequency[1] = <<C17_Name(2), 3>>
  /\ inventory.top_reports_by_frequency[2] = <<C17_Name(1), 1>>
  /\ errors.most_failing_reports[1] = <<C17_Name(1), 1>>
  /\ errors.most_failing_reports[2] = <<C17_Name(2), 1>>

\* C18: in a tenant's per-report drill-down p90_duration_s is None exactly when
\* the report has fewer than 10 non-negative durations; otherwise it is the
\* element at index floor(0.9 * n) of the n durations in ascending order, an
\* index below n, and min_duration_s <= p90_duration_s <= max_duration_s.
C18_Timed(sn, name) ==
  {i \in RowIds : /\ C14_IsOf(rows[i], sn)
                  /\ rows[i]["report_name"] = name
                  /\ _get_duration_seconds(rows[i]) # NoneVal
                  /\ _get_duration_seconds(rows[i]).n >= 0}

C18_Dur(i) == _get_duration_seconds(rows[i]).n

\* v is the element at index idx, counted from 0, of the durations of ids in
\* ascending order
C18_IsAt(ids, idx, v) ==
  /\ \E i \in ids : C18_Dur(i) = v
  /\ Cardinality({i \in ids : C18_Dur(i) < v}) <= idx
  /\ Cardinality({i \in ids : C18_Dur(i) <= v}) >= idx + 1

C18_Entry(sn, r) ==
  LET ids == C18_Timed(sn, r.name)
      n == Cardinality(ids)
      idx == (9 * n) \div 10
  IN /\ r.p90_duration_s = NoneVal <=> n < 10
     /\ n >= 10 =>
          /\ idx < n
          /\ r.p90_duration_s.tag = "num"
          /\ C18_IsAt(ids, idx, r.p90_duration_s.n)
          /\ r.min_duration_s.n <= r.p90_duration_s.n
          /\ r.p90_duration_s.n <= r.max_duration_s.n

C18_P90 ==
  per_tenant_json # Unset =>
    \A k \in 1..Len(per_tenant_json) :
      \A j \in 1..Len(per_tenant_json[k].json.reports) :
        C18_Entry(per_tenant_json[k].sn, per_tenant_json[k].json.reports[j])

\* a report with 11 executions, 10 of them with a non-negative duration: its
\* p90 is the largest duration; the tenant's other report has one execution
\* and no p90
C18_Witness ==
  /\ pc = "done"
  /\ per_tenant_json # Unset
  /\ Len(per_tenant_json) = 1
  /\ \E j \in 1..Len(per_tenant_json[1].json.reports) :
       LET r == per_tenant_json[1].json.reports[j]
       IN /\ r.total = 11
          /\ Cardinality(C18_Timed(per_tenant_json[1].sn, r.name)) = 10
          /\ r.p90_duration_s # NoneVal
          /\ r.p90_duration_s = r.max_duration_s
          /\ r.min_duration_s.n < r.p90_duration_s.n

\* C19: in a tenant's per-report drill-down the executions of a report are in
\* ascending order of start, entries with no timestamp-typed start (their start
\* is the empty string) before all dated ones and entries with equal starts in
\* record order; the list has at most 500 entries, cut after sorting, so that it
\* holds the 500 earliest executions, while total counts every execution of the
\* report.
C19_Report(sn, name) ==
  {i \in RowIds : C14_IsOf(rows[i], sn) /\ rows[i]["report_name"] = name}

C19_Key(i) == IF IsTs(_get_start(rows[i])) THEN _get_start(rows[i]).n ELSE 0 - 1

\* the number of executions of ids that come before execution i
C19_Rank(ids, i) ==
  Cardinality({j \in ids : \/ C19_Key(j) < C19_Key(i)
                           \/ C19_Key(j) = C19_Key(i) /\ j < i})

C19_Entry(sn, r) ==
  \A ids \in {C19_Report(sn, r.name)} :
    /\ r.total = Cardinality(ids)
    /\ Len(r.executions) = Min2(Cardinality(ids), 500)
    /\ \A k \in 1..(Len(r.executions) - 1) :
         StrKey(r.executions[k].start) <= StrKey(r.executions[k + 1].start)
    /\ \A i \in ids :
         \A rank \in {C19_Rank(ids, i)} :
           rank < 500 => r.executions[rank + 1] = Execution(rows[i])

C19_Executions ==
  per_tenant_json # Unset =>
    \A k \in 1..Len(per_tenant_json) :
      \A j \in 1..Len(per_tenant_json[k].json.reports) :
        C19_Entry(per_tenant_json[k].sn, per_tenant_json[k].json.reports[j])

\* a report with more than 500 executions, the first record the latest to
\* start and the last record with no start: the list begins with the last
\* record and leaves the first record out
C19_Witness ==
  /\ pc = "done"
  /\ per_tenant_json # Unset
  /\ Len(per_tenant_json) = 1
  /\ Len(per_tenant_json[1].json.reports) = 1
  /\ per_tenant_json[1].json.reports[1].total > 500
  /\ Len(per_tenant_json[1].json.reports[1].executions) = 500
  /\ per_tenant_json[1].json.reports[1].executions[1].start = EmptyStr
  /\ ~IsTs(_get_start(rows[Len(rows)]))
  /\ IsTs(_get_start(rows[1]))
  /\ \A k \in 1..500 :
       per_tenant_json[1].json.reports[1].executions[k].start # Strftime(_get_start(rows[1]))

\* C20: once run_all_analyses is done, tenant_summaries and per_tenant_json have
\* the same tenant keys, and for every tenant the summary and the nested
\* structure agree: total_executions, failure_count and failure_rate are equal,
\* unique_reports equals the nested unique_report_count, and the totals of the
\* nested per-report drill-down sum to the summary's total_executions.
C20_Built == pc = "done" /\ (tenant_summaries # Unset \/ per_tenant_json # Unset)

C20_Agree(s, json) ==
  /\ s.total_executions = json.total_executions
  /\ s.failure_count = json.failure_count
  /\ s.failure_rate = json.failure_rate
  /\ s.unique_reports = json.unique_report_count
  /\ SumSeq([j \in 1..Len(json.reports) |-> json.reports[j].total]) = s.total_executions

C20_SummaryMatchesJson ==
  C20_Built =>
    /\ tenant_summaries # Unset /\ per_tenant_json # Unset
    /\ Len(tenant_summaries) = Len(per_tenant_json)
    /\ {tenant_summaries[k].schema_name : k \in 1..Len(tenant_summaries)}
         = {per_tenant_json[k].sn : k \in 1..Len(per_tenant_json)}
    /\ Cardinality({per_tenant_json[k].sn : k \in 1..Len(per_tenant_json)})
         = Len(per_tenant_json)
    /\ \A k \in 1..Len(tenant_summaries) :
         \A l \in 1..Len(per_tenant_json) :
           tenant_summaries[k].schema_name = per_tenant_json[l].sn
             => C20_Agree(tenant_summaries[k], per_tenant_json[l].json)

\* two tenants: the first seen with one report and no failure, the other with
\* more executions, two reports and a failure, so that it comes first in the
\* summaries and second in the nested structures
C20_Witness ==
  /\ pc = "done"
  /\ tenant_summaries # Unset
  /\ Len(tenant_summaries) = 2
  /\ tenant_summaries[1].schema_name = per_tenant_json[2].sn
  /\ tenant_summaries[1].total_executions = 3
  /\ tenant_summaries[1].unique_reports = 2
  /\ tenant_summaries[1].failure_count = 1
  /\ tenant_summaries[2].total_executions = 1
  /\ tenant_summaries[2].failure_count = 0
  /\ per_tenant_json[2].json.failure_count = 1
  /\ Len(per_tenant_json[2].json.reports) = 2

\* C21: on intervals with start < end, every record analyze_timing lists in
\* overlapping_runs overlaps at least one other record under the exhaustive test
\* of analyze_errors (other.start < R.end and other.end > R.start), and every
\* failed record that is listed and is among the first 50 failures has an entry
\* of concurrent_load_at_failure, with its report name and start, whose
\* concurrent_count is at least 1.
C21_Key(f) == <<GetD(rows[f], "report_name", EmptyStr), Strftime(_get_start(rows[f]))>>

\* the failed records among the first 50 failures that overlapping_runs lists
C21_Shown ==
  {f \in Range(timing.overlapping_runs) : Failed(f) /\ FailedBefore(f) < 50}

\* the entries of concurrent_load_at_failure for the key with a count of at least 1
C21_Loaded(key) ==
  {k \in 1..Len(errors.concurrent_load_at_failure) :
     LET entry == errors.concurrent_load_at_failure[k]
     IN /\ <<entry.report_name, entry.start>> = key
        /\ entry.concurrent_count >= 1}

C21_AdjacentSound ==
  (C15_Timed /\ errors # Unset /\ C15_Proper) =>
    /\ \A k \in 1..Len(timing.overlapping_runs) :
         \E o \in RowIds \ {timing.overlapping_runs[k]} :
           /\ HasInterval(o)
           /\ StartAt(o) < EndAt(timing.overlapping_runs[k])
           /\ EndAt(o) > StartAt(timing.overlapping_runs[k])
    /\ \A shown \in {C21_Shown} :
         \A f \in shown :
           Cardinality({g \in shown : C21_Key(g) = C21_Key(f)})
             <= Cardinality(C21_Loaded(C21_Key(f)))

\* three failed records: the first two share an interval and are listed, each
\* with a count of 1; the third starts when they end, is not listed and has a
\* count of 0
C21_Witness ==
  /\ C15_Timed /\ errors # Unset /\ C15_Proper
  /\ Len(rows) = 3
  /\ \A i \in 1..3 : Failed(i) /\ HasInterval(i)
  /\ StartAt(1) = StartAt(2) /\ EndAt(1) = EndAt(2) /\ StartAt(3) = EndAt(1)
  /\ timing.overlapping_runs = <<1, 2>>
  /\ C21_Shown = {1, 2}
  /\ Len(errors.concurrent_load_at_failure) = 3
  /\ errors.concurrent_load_at_failure[1].concurrent_count = 1
  /\ errors.concurrent_load_at_failure[2].concurrent_count = 1
  /\ errors.concurrent_load_at_failure[3].concurrent_count = 0

====
